---- MODULE Spec2Model ----
(***************************************************************************)
(* AICap backend: OAuth state registry, authorization flows, encrypted     *)
(* multi-account credential store, sliding-window rate limiters and the    *)
(* singleflight limits refresh, modelled from backend/app.                 *)
(*                                                                         *)
(* Time is the integer number of seconds returned by time.time().  The     *)
(* HMAC is symbolic: Hmac(n, t) is a value that equals Hmac(n2, t2) only   *)
(* when n = n2 and t = t2.  secrets.token_hex(16) is a fresh nonce.        *)
(***************************************************************************)
EXTENDS Integers, Sequences, FiniteSets, TLC

VARIABLES
    now,              \* time.time(), whole seconds
    pending_states,   \* OAuthStateManager._pending_states, in insertion order
    next_nonce,       \* the next value secrets.token_hex(16) returns
    minted,           \* every state token create_state has returned so far
    tokens_file,      \* CredentialManager.TOKENS_FILE: what decrypting it yields
    cached_limits,    \* main.cached_limits: provider -> UsageLimits, or None
    last_update,      \* main.last_update
    update_limits_task, \* main._update_limits_task: a task id, 0 for None
    tasks,            \* the asyncio tasks running _run_update_all_limits
    callers,          \* task id -> how many update_all_limits calls await it
    rate_limit_storage,        \* main.rate_limit_storage: ip -> timestamps
    rate_limit_last_seen,      \* main.rate_limit_last_seen: ip -> time
    auth_rate_limit_storage,   \* main.auth_rate_limit_storage
    auth_rate_limit_last_seen, \* main.auth_rate_limit_last_seen
    admitted,         \* per limiter and ip, the times of the calls it accepted
                      \* that are still inside the window (history)
    pending_flow,     \* OpenAIOAuth._pending_flow
    pending_flows,    \* GoogleOAuth._pending_flows: state -> flow
    callbacks,        \* the /auth/callback requests: where each one is
    refresh,          \* the refresh_tokens call in flight, if any
    disk_writable,    \* whether TOKENS_FILE.write_bytes succeeds
    disk_readable,    \* whether TOKENS_FILE.read_bytes succeeds
    cycles,           \* the CredentialManager calls of the requests in
                      \* flight: what each has loaded and not yet saved
    serial,           \* the database the committed calls produce when run
                      \* one after the other in commit order (history)
    last              \* the last call of the registry, the credential store
                      \* or an account endpoint: its argument, what it
                      \* returned, and (pre) what it found before it acted

regVars == <<pending_states, next_nonce, minted>>
limVars == <<cached_limits, last_update, update_limits_task, tasks, callers>>

rlVars == <<rate_limit_storage, rate_limit_last_seen, auth_rate_limit_storage,
            auth_rate_limit_last_seen, admitted>>
flowVars == <<pending_flow, pending_flows, callbacks, refresh>>
diskVars == <<disk_writable, disk_readable>>
envVars == <<diskVars, cycles, serial>>
reqVars == <<rlVars, flowVars, envVars>>
vars == <<now, regVars, tokens_file, limVars, reqVars, last>>

----------------------------------------------------------------------------
(* Bounds of the model *)

\* create_state calls explored
MaxStates == 4
\* the clock stops advancing here
MaxTime == 602
\* refresh rounds (_run_update_all_limits tasks) explored
MaxRounds == 2
\* update_all_limits calls that can be suspended at once
MaxCallers == 2
\* state_manager.py:35 sets MAX_PENDING_STATES = 100; the model explores the
\* same eviction rule on a smaller table
MAX_PENDING_STATES == 3
\* config.py:197 sets RATE_LIMIT_REQUESTS = 60 and config.py:201 sets
\* AUTH_RATE_LIMIT_REQUESTS = 15; the model explores the same rule with
\* smaller limits
RATE_LIMIT_REQUESTS == 2
AUTH_RATE_LIMIT_REQUESTS == 2
\* the clock of the rate limiters stops advancing here
MaxRateTime == 180
\* /auth/callback requests explored
MaxCallbacks == 2
\* logins explored together with the callbacks
MaxLogins == 2

(* Program constants *)

OAUTH_STATE_EXPIRATION == 600

RATE_LIMIT_WINDOW == 60
AUTH_RATE_LIMIT_WINDOW == 60

\* GoogleOAuth.FLOW_EXPIRATION_SECONDS
FLOW_EXPIRATION_SECONDS == 600

Providers == <<"openai", "antigravity">>
ProviderSet == {Providers[i] : i \in 1..Len(Providers)}

\* seconds the clock may advance in one step: ages of 600 (still valid) and
\* of 601 and 602 (expired) both occur
TickSteps == {300, 301}

----------------------------------------------------------------------------
(* Python values *)

None == [tag |-> "None"]
AttributeError == [tag |-> "AttributeError"]

Min(a, b) == IF a < b THEN a ELSE b

SeqToSet(s) == {s[i] : i \in 1..Len(s)}

----------------------------------------------------------------------------
(* OAuthStateManager *)

Hmac(nonce, timestamp) == [n |-> nonce, t |-> timestamp]

\* f"{nonce}:{signature}"
MakeState(nonce, sig) == [fmt |-> "nonce:sig", nonce |-> nonce, sig |-> sig]

\* a string without ":"
MalformedState == [fmt |-> "nocolon", nonce |-> 0, sig |-> Hmac(0, 0)]

StateData(state, created_at, add_new_account, nonce, provider) ==
    [tag |-> "StateData", state |-> state, created_at |-> created_at,
     add_new_account |-> add_new_account, nonce |-> nonce,
     provider |-> provider]

\* dict lookups on _pending_states
HasState(states, state) == \E i \in 1..Len(states) : states[i].state = state

GetState(states, state) ==
    IF HasState(states, state)
    THEN states[CHOOSE i \in 1..Len(states) : states[i].state = state]
    ELSE None

DelState(states, state) ==
    LET Keep(d) == d.state # state IN SelectSeq(states, Keep)

\* states[state] = data: a new key goes last, an existing key keeps its place
PutState(states, data) ==
    IF HasState(states, data.state)
    THEN [i \in 1..Len(states) |->
            IF states[i].state = data.state THEN data ELSE states[i]]
    ELSE Append(states, data)

IsExpired_off(data, t) == FALSE

\* time.time() - data.created_at > OAUTH_STATE_EXPIRATION
IsExpired(data, t) == t - data.created_at > OAUTH_STATE_EXPIRATION

CleanupExpiredUnsafe(states, t) ==
    LET Keep(d) == ~IsExpired(d, t) IN SelectSeq(states, Keep)

\* sorted(items, key=created_at): stable insertion sort
RECURSIVE InsertByCreatedAt(_, _)
InsertByCreatedAt(sorted, d) ==
    IF sorted = <<>> THEN <<d>>
    ELSE IF d.created_at < Head(sorted).created_at THEN <<d>> \o sorted
    ELSE <<Head(sorted)>> \o InsertByCreatedAt(Tail(sorted), d)

RECURSIVE SortedByCreatedAt(_)
SortedByCreatedAt(states) ==
    IF states = <<>> THEN <<>>
    ELSE InsertByCreatedAt(SortedByCreatedAt(SubSeq(states, 1, Len(states) - 1)),
                           states[Len(states)])

\* the states create_state prunes: sorted_states[: len(sorted_states) // 2]
OldestHalf(states) ==
    LET sorted_states == SortedByCreatedAt(states)
    IN  SeqToSet(SubSeq(sorted_states, 1, Len(sorted_states) \div 2))

AtCapacity_off(states) == FALSE

\* len(self._pending_states) >= self.MAX_PENDING_STATES
AtCapacity(states) == Len(states) >= MAX_PENDING_STATES

PruneOldest(states) ==
    LET old == OldestHalf(states)
        Keep(d) == d \notin old
    IN  SelectSeq(states, Keep)

\* the table create_state leaves behind
CreateStateTable(states, data, t) ==
    LET cleaned == CleanupExpiredUnsafe(states, t)
        pruned  == IF AtCapacity(cleaned) THEN PruneOldest(cleaned) ELSE cleaned
    IN  PutState(pruned, data)

create_state(add_new_account, provider) ==
    /\ next_nonce <= MaxStates
    /\ LET nonce      == next_nonce
           created_at == now
           state      == MakeState(nonce, Hmac(nonce, created_at))
           data       == StateData(state, created_at, add_new_account, nonce,
                                   provider)
       IN  /\ pending_states' = CreateStateTable(pending_states, data, now)
           /\ minted' = minted \cup {state}
           /\ last' = [op |-> "create_state", arg |-> state, ret |-> data,
                       pre |-> pending_states]
    /\ next_nonce' = next_nonce + 1
    /\ UNCHANGED <<now, tokens_file, limVars, reqVars>>

ValidateStateResult_now(states, state, t) ==
    IF state.fmt # "nonce:sig" THEN None
    ELSE LET state_data == GetState(states, state) IN
         IF state_data = None THEN None
         ELSE IF IsExpired(state_data, t) THEN None
         ELSE IF state.sig # Hmac(state.nonce, t) THEN None
         ELSE state_data

\* what validate_state returns
ValidateStateResult(states, state, t) ==
    IF state.fmt # "nonce:sig" THEN None
    ELSE LET state_data == GetState(states, state) IN
         IF state_data = None THEN None
         ELSE IF IsExpired(state_data, t) THEN None
         ELSE IF state.sig # Hmac(state.nonce, state_data.created_at) THEN None
         ELSE state_data

\* the table validate_state leaves behind: only an expired entry is deleted
ValidateStateTable(states, state, t) ==
    IF state.fmt # "nonce:sig" THEN states
    ELSE LET state_data == GetState(states, state) IN
         IF state_data = None THEN states
         ELSE IF IsExpired(state_data, t) THEN DelState(states, state)
         ELSE states

validate_state(state) ==
    /\ pending_states' = ValidateStateTable(pending_states, state, now)
    /\ last' = [op |-> "validate_state", arg |-> state,
                ret |-> ValidateStateResult(pending_states, state, now),
                pre |-> GetState(pending_states, state)]
    /\ UNCHANGED <<now, next_nonce, minted, tokens_file, limVars, reqVars>>

consume_state(state) ==
    /\ pending_states' = DelState(pending_states, state)
    /\ last' = [op |-> "consume_state", arg |-> state,
                ret |-> [tag |-> "bool", val |-> HasState(pending_states, state)],
                pre |-> GetState(pending_states, state)]
    /\ UNCHANGED <<now, next_nonce, minted, tokens_file, limVars, reqVars>>

cleanup_expired ==
    /\ pending_states' = CleanupExpiredUnsafe(pending_states, now)
    /\ last' = [op |-> "cleanup_expired", arg |-> MalformedState, ret |-> None,
                pre |-> None]
    /\ UNCHANGED <<now, next_nonce, minted, tokens_file, limVars, reqVars>>

\* OAuthStateManager defines create_state, validate_state, consume_state,
\* cleanup_expired and _cleanup_expired_unsafe and nothing else: the attribute
\* lookup oauth_state_manager.validate_and_consume raises AttributeError
\* before anything is checked or removed
validate_and_consume(state, expected_provider) ==
    /\ last' = [op |-> "validate_and_consume", arg |-> state,
                ret |-> AttributeError,
                pre |-> GetState(pending_states, state)]
    /\ UNCHANGED <<now, regVars, reqVars, tokens_file, limVars>>

\* the accepted calls that a check at time t or later can still count
StillInWindow(times, t, window) ==
    LET Inside(ts) == t - ts < window IN SelectSeq(times, Inside)

AdmittedAt(t) ==
    [general |-> [c \in DOMAIN admitted.general |->
                    StillInWindow(admitted.general[c], t, RATE_LIMIT_WINDOW)],
     auth |-> [c \in DOMAIN admitted.auth |->
                    StillInWindow(admitted.auth[c], t, AUTH_RATE_LIMIT_WINDOW)]]

\* time passes
TickWithin(d, bound) ==
    /\ now + d <= bound
    /\ now' = now + d
    /\ admitted' = AdmittedAt(now + d)
    /\ last' = [op |-> "tick", arg |-> MalformedState, ret |-> None,
                pre |-> None]
    /\ UNCHANGED <<envVars, regVars, tokens_file, limVars, rate_limit_storage,
                   rate_limit_last_seen, auth_rate_limit_storage,
                   auth_rate_limit_last_seen, flowVars>>

Tick(d) == TickWithin(d, MaxTime)

\* the (add_new_account, provider) pairs states are created with: the registry
\* stores and returns them and never branches on them
StateKinds == {<<FALSE, "openai">>, <<TRUE, "antigravity">>}

\* the state tokens a caller can present: every minted one, one with a
\* signature that was never issued, and one without ":"
ForgedState == MakeState(1, Hmac(1, -1))
PresentedStates == minted \cup {ForgedState, MalformedState}


----------------------------------------------------------------------------
(* CredentialManager *)

\* str(uuid.uuid4())[:ACCOUNT_ID_LENGTH]: either may be drawn, whether or not
\* it is already in use, so the model holds at most two accounts
AccountIds == {"0000000a", "0000000b"}

\* Optional[str] that holds no account id
NoneId == "None"

\* token dictionaries; LegacyTokens is what a file of the old format holds
TokenSets == {"tokens1", "tokens2"}
LegacyTokens == "tokens0"

\* name or f"Account {account_num}"
AccountName(name, account_num) ==
    IF name = "" THEN [text |-> "Account", num |-> account_num]
    ELSE [text |-> name, num |-> 0]

Account(id, provider, tokens, name) ==
    [id |-> id, provider |-> provider, tokens |-> tokens, name |-> name]

\* {"accounts": {}, "active_account": None}; accounts keeps insertion order
EmptyDb == [accounts |-> <<>>, active_account |-> NoneId]

AbsentFile == [kind |-> "absent", data |-> EmptyDb, openai |-> LegacyTokens]
CorruptFile == [kind |-> "corrupt", data |-> EmptyDb, openai |-> LegacyTokens]
LegacyFile == [kind |-> "legacy", data |-> EmptyDb, openai |-> LegacyTokens]
DataFile(data) == [kind |-> "data", data |-> data, openai |-> LegacyTokens]

LoadAllData_migrate(file, new_id) ==
    IF file.kind = "data" THEN file.data
    ELSE IF file.kind \in {"legacy", "corrupt"}
    THEN [accounts |-> <<Account(new_id, "openai", file.openai,
                                 AccountName("", 1))>>,
          active_account |-> new_id]
    ELSE EmptyDb

\* _load_all_data; new_id is the id the migration draws
LoadAllData(file, new_id) ==
    IF file.kind = "data" THEN file.data
    ELSE IF file.kind = "legacy"
    THEN [accounts |-> <<Account(new_id, "openai", file.openai,
                                 AccountName("", 1))>>,
          active_account |-> new_id]
    ELSE EmptyDb

AccountIdsOf(data) == {data.accounts[i].id : i \in 1..Len(data.accounts)}

HasAccount(data, id) == id \in AccountIdsOf(data)

GetAccountOf(data, id) ==
    data.accounts[CHOOSE i \in 1..Len(data.accounts) : data.accounts[i].id = id]

\* data["accounts"][acc.id] = acc
PutAccount(data, acc) ==
    [data EXCEPT !.accounts =
        IF HasAccount(data, acc.id)
        THEN [i \in 1..Len(data.accounts) |->
                IF data.accounts[i].id = acc.id THEN acc ELSE data.accounts[i]]
        ELSE Append(data.accounts, acc)]

CreateAccountData_always(data, id, provider, tokens, name) ==
    [PutAccount(data, Account(id, provider, tokens,
                              AccountName(name, Len(data.accounts) + 1)))
        EXCEPT !.active_account = id]

CreateAccountData(data, id, provider, tokens, name) ==
    LET account_num == Len(data.accounts) + 1
        added == PutAccount(data, Account(id, provider, tokens,
                                          AccountName(name, account_num)))
    IN  IF data.active_account = NoneId
        THEN [added EXCEPT !.active_account = id]
        ELSE added

\* next(iter(data["accounts"]), None)
FirstAccountId(accounts) ==
    IF accounts = <<>> THEN NoneId ELSE accounts[1].id

NewActiveAfterDelete_none(accounts) == NoneId

NewActiveAfterDelete(accounts) == FirstAccountId(accounts)

DeleteKeepsActive_always(data, id) == FALSE

\* if data["active_account"] == account_id
DeletedIsActive(data, id) == data.active_account = id

DeleteAccountData_clear(data, id) ==
    LET Keep(acc) == acc.id # id
    IN  [accounts |-> SelectSeq(data.accounts, Keep),
         active_account |-> IF DeletedIsActive(data, id) THEN NoneId
                            ELSE data.active_account]

DeleteAccountData(data, id) ==
    LET Keep(acc) == acc.id # id
        rest == SelectSeq(data.accounts, Keep)
    IN  [accounts |-> rest,
         active_account |-> IF DeletedIsActive(data, id)
                            THEN NewActiveAfterDelete(rest)
                            ELSE data.active_account]

\* get_active_account: the active account if it is one of provider's, else
\* the first account of provider, else None
ActiveAccountId(data, provider) ==
    IF /\ data.active_account # NoneId
       /\ HasAccount(data, data.active_account)
       /\ GetAccountOf(data, data.active_account).provider = provider
    THEN data.active_account
    ELSE LET OfProvider(acc) == acc.provider = provider
             matching == SelectSeq(data.accounts, OfProvider)
         IN  FirstAccountId(matching)

Bool(b) == [tag |-> "bool", val |-> b]
Str(v) == [tag |-> "str", val |-> v]

\* _save_all_data: the file it leaves behind; a write the disk refuses leaves
\* the file as it was
Saved(data) == IF disk_writable THEN DataFile(data) ELSE tokens_file

\* what _save_all_data returns
SaveResult == disk_writable

OSError == [tag |-> "OSError"]

\* _load_all_data lets the OSError of read_bytes pass: it catches InvalidToken
\* and JSONDecodeError only
LoadRaises(file) == file.kind # "absent" /\ ~disk_readable

\* TOKENS_FILE becomes unreadable (its permissions change, the medium
\* fails) or readable again
ReadFault ==
    /\ disk_readable' = ~disk_readable
    /\ UNCHANGED <<now, regVars, tokens_file, limVars, rlVars, flowVars,
                   disk_writable, cycles, serial, last>>

create_account(provider, tokens, name) ==
    \E mig \in AccountIds, account_id \in AccountIds :
        LET data == LoadAllData(tokens_file, mig) IN
        /\ tokens_file' = Saved(CreateAccountData(data, account_id, provider,
                                                  tokens, name))
        /\ last' = [op |-> "create_account", arg |-> account_id,
                    ret |-> Str(account_id), pre |-> data]
        /\ UNCHANGED <<now, regVars, reqVars, limVars>>

set_active_account(account_id) ==
    \E mig \in AccountIds :
        LET data == LoadAllData(tokens_file, mig) IN
        /\ tokens_file' = IF HasAccount(data, account_id)
                          THEN Saved([data EXCEPT !.active_account = account_id])
                          ELSE tokens_file
        /\ last' = [op |-> "set_active_account", arg |-> account_id,
                    ret |-> Bool(HasAccount(data, account_id) /\ SaveResult),
                    pre |-> data]
        /\ UNCHANGED <<now, regVars, reqVars, limVars>>

UpdateNameData(data, account_id, name) ==
    PutAccount(data, [GetAccountOf(data, account_id) EXCEPT
                        !.name = [text |-> name, num |-> 0]])

update_account_name(account_id, name) ==
    \E mig \in AccountIds :
        LET data == LoadAllData(tokens_file, mig) IN
        /\ tokens_file' = IF HasAccount(data, account_id)
                          THEN Saved(UpdateNameData(data, account_id, name))
                          ELSE tokens_file
        /\ last' = [op |-> "update_account_name", arg |-> account_id,
                    ret |-> Bool(HasAccount(data, account_id) /\ SaveResult),
                    pre |-> data]
        /\ UNCHANGED <<now, regVars, reqVars, limVars>>

UpdateTokensData(data, account_id, tokens) ==
    PutAccount(data, [GetAccountOf(data, account_id) EXCEPT !.tokens = tokens])

\* the file update_account_tokens leaves behind
UpdateAccountTokensFile(file, mig, account_id, tokens) ==
    LET data == LoadAllData(file, mig) IN
    IF HasAccount(data, account_id)
    THEN Saved(UpdateTokensData(data, account_id, tokens))
    ELSE file

update_account_tokens(account_id, tokens) ==
    \E mig \in AccountIds :
        LET data == LoadAllData(tokens_file, mig) IN
        /\ tokens_file' = UpdateAccountTokensFile(tokens_file, mig, account_id,
                                                  tokens)
        /\ last' = [op |-> "update_account_tokens", arg |-> account_id,
                    ret |-> Bool(HasAccount(data, account_id) /\ SaveResult),
                    pre |-> data]
        /\ UNCHANGED <<now, regVars, reqVars, limVars>>

DeleteAccountFile_save(file, mig, account_id) ==
    Saved(DeleteAccountData(LoadAllData(file, mig), account_id))

\* the file delete_account leaves behind
DeleteAccountFile(file, mig, account_id) ==
    LET data == LoadAllData(file, mig) IN
    IF HasAccount(data, account_id)
    THEN Saved(DeleteAccountData(data, account_id))
    ELSE file

delete_account(account_id) ==
    \E mig \in AccountIds :
        LET data == LoadAllData(tokens_file, mig) IN
        /\ tokens_file' = DeleteAccountFile(tokens_file, mig, account_id)
        /\ last' = [op |-> "delete_account", arg |-> account_id,
                    ret |-> Bool(HasAccount(data, account_id) /\ SaveResult),
                    pre |-> data]
        /\ UNCHANGED <<now, regVars, reqVars, limVars>>

\* the file save_tokens leaves behind: mig1 is drawn by the load inside
\* get_active_account, mig2 by the load inside update_account_tokens or
\* create_account, account_id by create_account
SaveTokensFile(file, mig1, mig2, account_id, provider, tokens) ==
    LET active == ActiveAccountId(LoadAllData(file, mig1), provider) IN
    IF active # NoneId
    THEN UpdateAccountTokensFile(file, mig2, active, tokens)
    ELSE Saved(CreateAccountData(LoadAllData(file, mig2), account_id, provider,
                                 tokens, ""))

\* what save_tokens returns
SaveTokensResult(file, mig1, mig2, provider) ==
    LET active == ActiveAccountId(LoadAllData(file, mig1), provider) IN
    IF active # NoneId
    THEN HasAccount(LoadAllData(file, mig2), active) /\ SaveResult
    ELSE TRUE

save_tokens(provider, tokens) ==
    \E mig1 \in AccountIds, mig2 \in AccountIds, account_id \in AccountIds :
        /\ tokens_file' = IF LoadRaises(tokens_file) THEN tokens_file
                          ELSE SaveTokensFile(tokens_file, mig1, mig2,
                                              account_id, provider, tokens)
        /\ last' = [op |-> "save_tokens", arg |-> provider,
                    ret |-> IF LoadRaises(tokens_file) THEN OSError
                            ELSE Bool(SaveTokensResult(tokens_file, mig1,
                                                       mig2, provider)),
                    pre |-> LoadAllData(tokens_file, mig1),
                    tokens |-> tokens]
        /\ UNCHANGED <<now, regVars, reqVars, limVars>>

\* the file delete_tokens leaves behind
DeleteTokensFile(file, mig1, mig2, provider) ==
    LET active == ActiveAccountId(LoadAllData(file, mig1), provider) IN
    IF active # NoneId THEN DeleteAccountFile(file, mig2, active) ELSE file

\* what delete_tokens returns
DeleteTokensResult(file, mig1, mig2, provider) ==
    LET active == ActiveAccountId(LoadAllData(file, mig1), provider) IN
    IF active # NoneId
    THEN HasAccount(LoadAllData(file, mig2), active) /\ SaveResult
    ELSE TRUE

delete_tokens(provider) ==
    \E mig1 \in AccountIds, mig2 \in AccountIds :
        /\ tokens_file' = DeleteTokensFile(tokens_file, mig1, mig2, provider)
        /\ last' = [op |-> "delete_tokens", arg |-> provider,
                    ret |-> Bool(DeleteTokensResult(tokens_file, mig1, mig2,
                                                    provider)),
                    pre |-> LoadAllData(tokens_file, mig1)]
        /\ UNCHANGED <<now, regVars, reqVars, limVars>>

\* has_tokens
HasTokens(file, mig, provider) ==
    ActiveAccountId(LoadAllData(file, mig), provider) # NoneId

\* active.get("tokens") if active else None; NoneId stands for None
TokensOf(data, provider) ==
    LET active == ActiveAccountId(data, provider)
    IN  IF active # NoneId THEN GetAccountOf(data, active).tokens ELSE NoneId

\* get_tokens
GetTokens(file, mig, provider) == TokensOf(LoadAllData(file, mig), provider)

\* the disk starts to refuse writes of TOKENS_FILE (it is full, read-only or
\* the file is locked) or accepts them again
WriteFault ==
    /\ disk_writable' = ~disk_writable
    /\ UNCHANGED <<now, regVars, tokens_file, limVars, rlVars, flowVars,
                   disk_readable, cycles, serial, last>>

----------------------------------------------------------------------------
(* CredentialManager calls of requests that are in flight together.  Every  *)
(* caller is a coroutine of the one event loop uvicorn.run starts: the      *)
(* handlers of main.py are async def, and the providers call the store from *)
(* exchange_code, refresh_tokens and get_limits.  A coroutine keeps the     *)
(* loop until it awaits.                                                    *)

MaxWorkers == 2
Workers == 1..MaxWorkers

IdleCycle == [pc |-> "idle", call |-> None, data |-> EmptyDb]

CreateCall(account_id, provider, tokens) ==
    [op |-> "create_account", account_id |-> account_id,
     provider |-> provider, tokens |-> tokens]
UpdateTokensCall(account_id, tokens) ==
    [op |-> "update_account_tokens", account_id |-> account_id,
     provider |-> "", tokens |-> tokens]
DeleteCall(account_id) ==
    [op |-> "delete_account", account_id |-> account_id,
     provider |-> "", tokens |-> ""]

CycleCalls ==
    {CreateCall(id, "openai", "tokens1") : id \in AccountIds}
        \cup {UpdateTokensCall(id, "tokens2") : id \in AccountIds}
        \cup {DeleteCall(id) : id \in AccountIds}

\* whether the call reaches _save_all_data with the data it loaded
Saves(call, data) ==
    call.op = "create_account" \/ HasAccount(data, call.account_id)

\* what the call makes of the data it loaded
Mutated(call, data) ==
    IF ~Saves(call, data) THEN data
    ELSE IF call.op = "create_account"
    THEN CreateAccountData(data, call.account_id, call.provider, call.tokens,
                           "")
    ELSE IF call.op = "update_account_tokens"
    THEN UpdateTokensData(data, call.account_id, call.tokens)
    ELSE DeleteAccountData(data, call.account_id)

AwaitsBeforeSave_yes == TRUE

\* whether a CredentialManager method awaits between _load_all_data and
\* _save_all_data: each is a plain def
AwaitsBeforeSave == FALSE

\* the coroutines that hold the event loop
Running == {w \in Workers : cycles[w].pc = "loaded" /\ ~AwaitsBeforeSave}

\* the event loop can run a step of w
CanRun(w) == Running \subseteq {w}

\* a request whose handler calls the store is accepted and its coroutine
\* scheduled
CycleArrive(w, call) ==
    /\ cycles[w].pc = "idle"
    /\ cycles' = [cycles EXCEPT ![w].pc = "ready", ![w].call = call]
    /\ UNCHANGED <<now, regVars, tokens_file, limVars, rlVars, flowVars,
                   diskVars, serial, last>>

\* data = cls._load_all_data()
CycleLoad(w) ==
    \E mig \in AccountIds :
        /\ cycles[w].pc = "ready"
        /\ CanRun(w)
        /\ cycles' = [cycles EXCEPT ![w].pc = "loaded",
                         ![w].data = LoadAllData(tokens_file, mig)]
        /\ UNCHANGED <<now, regVars, tokens_file, limVars, rlVars, flowVars,
                       diskVars, serial, last>>

\* the mutation and return cls._save_all_data(data), or return False
CycleSave(w) ==
    LET cy == cycles[w] IN
    /\ cy.pc = "loaded"
    /\ CanRun(w)
    /\ tokens_file' = IF Saves(cy.call, cy.data)
                      THEN Saved(Mutated(cy.call, cy.data))
                      ELSE tokens_file
    /\ serial' = IF Saves(cy.call, cy.data) /\ SaveResult
                 THEN Mutated(cy.call, serial)
                 ELSE serial
    /\ cycles' = [cycles EXCEPT ![w] = IdleCycle]
    /\ UNCHANGED <<now, regVars, limVars, rlVars, flowVars, diskVars, last>>

\* names the rename endpoint is called with
GivenNames == {"work"}


----------------------------------------------------------------------------
(* Limits cache and the singleflight refresh (main.py) *)

TaskIds == 1..MaxRounds

\* the UsageLimits a provider's get_limits returned to refresh round `round`
UsageLimits(provider, round) ==
    [tag |-> "UsageLimits", provider |-> provider, round |-> round]

NoLimits == [p \in ProviderSet |-> None]

\* a task that was never created; pc is "none", "created" (scheduled, not yet
\* run), "fetch" (suspended in await provider.get_limits() of Providers[at])
\* or "done"; new_limits is the coroutine's local, gone once it returned;
\* exception is what the finished task raised, None when it returned;
\* cleared is the index of the provider whose get_limits the task was
\* suspended in when an endpoint last cleared the cache under it, 0 if that
\* never happened (its snapshots of the providers up to that index were
\* requested before the clear); like new_limits it is gone once the task
\* returned
NoTask == [pc |-> "none", at |-> 0, new_limits |-> NoLimits,
           exception |-> None, cleared |-> 0]

InFlight(t) == tasks[t].pc \in {"created", "fetch"}

\* the tasks that are not finished
RunningTasks == {t \in TaskIds : InFlight(t)}

NeedNewTask_always(task, all_tasks) == TRUE

\* _update_limits_task is None or _update_limits_task.done()
NeedNewTask(task, all_tasks) == task = 0 \/ all_tasks[task].pc = "done"

NextTaskId == Cardinality({t \in TaskIds : tasks[t].pc # "none"}) + 1

RECURSIVE SumUpTo(_, _)
SumUpTo(f, n) == IF n = 0 THEN 0 ELSE f[n] + SumUpTo(f, n - 1)

\* update_all_limits up to await asyncio.shield(task): the lock is free
\* whenever it is requested, because no holder awaits inside it
EnterUpdateAllLimitsFrom(all_tasks) ==
    /\ SumUpTo(callers, MaxRounds) < MaxCallers
    /\ IF NeedNewTask(update_limits_task, all_tasks)
       THEN /\ NextTaskId \in TaskIds
            /\ tasks' = [all_tasks EXCEPT ![NextTaskId].pc = "created"]
            /\ update_limits_task' = NextTaskId
            /\ callers' = [callers EXCEPT ![NextTaskId] = @ + 1]
       ELSE /\ tasks' = all_tasks
            /\ UNCHANGED update_limits_task
            /\ callers' = [callers EXCEPT ![update_limits_task] = @ + 1]

EnterUpdateAllLimits == EnterUpdateAllLimitsFrom(tasks)

\* the tasks as cached_limits.clear() finds them: a task suspended in
\* get_limits has requested the snapshots of the providers up to its own
\* before the clear
ClearedUnder(all_tasks) ==
    [t \in TaskIds |->
        IF all_tasks[t].pc = "fetch"
        THEN [all_tasks[t] EXCEPT !.cleared = all_tasks[t].at]
        ELSE all_tasks[t]]

\* provider.is_authenticated(): CredentialManager.has_tokens
IsAuthenticated(file, mig, provider) == HasTokens(file, mig, provider)

\* the first provider from index i on that is authenticated, 0 if none
RECURSIVE NextAuthenticated(_, _, _)
NextAuthenticated(file, mig, i) ==
    IF i > Len(Providers) THEN 0
    ELSE IF IsAuthenticated(file, mig, Providers[i]) THEN i
    ELSE NextAuthenticated(file, mig, i + 1)

\* the providers a round has a snapshot for
Collected(new_limits) == {p \in ProviderSet : new_limits[p] # None}

Merge_last(cache, new_limits) ==
    LET last_p == Providers[CHOOSE i \in 1..Len(Providers) :
                     /\ Providers[i] \in Collected(new_limits)
                     /\ \A j \in (i + 1)..Len(Providers) :
                           Providers[j] \notin Collected(new_limits)]
    IN  IF Collected(new_limits) = {} THEN cache
        ELSE [cache EXCEPT ![last_p] = new_limits[last_p]]

\* for name, limits in new_limits.items(): cached_limits[name] = limits
Merge(cache, new_limits) ==
    [p \in ProviderSet |->
        IF new_limits[p] # None THEN new_limits[p] ELSE cache[p]]

DateTime(t) == [tag |-> "datetime", t |-> t]

\* _run_update_all_limits from the provider loop at index i until it suspends
\* in get_limits or, past the last provider, merges and finishes; an
\* exception of is_authenticated ends the task
RunTaskFrom(t, i, new_limits) ==
    \E mig \in AccountIds :
        LET j == NextAuthenticated(tokens_file, mig, i) IN
        IF i <= Len(Providers) /\ LoadRaises(tokens_file)
        THEN /\ tasks' = [tasks EXCEPT ![t] =
                  [pc |-> "done", at |-> 0, new_limits |-> NoLimits,
                   exception |-> OSError, cleared |-> 0]]
             /\ UNCHANGED <<cached_limits, last_update>>
        ELSE IF j # 0
        THEN /\ tasks' = [tasks EXCEPT ![t] =
                  [pc |-> "fetch", at |-> j, new_limits |-> new_limits,
                   exception |-> None, cleared |-> tasks[t].cleared]]
             /\ UNCHANGED <<cached_limits, last_update>>
        ELSE /\ tasks' = [tasks EXCEPT ![t] =
                  [pc |-> "done", at |-> 0, new_limits |-> NoLimits,
                   exception |-> None, cleared |-> 0]]
             /\ cached_limits' = Merge(cached_limits, new_limits)
             /\ last_update' = DateTime(now)

\* what get_limits raised, as the log line of the except clause shows it
GetLimitsError == [tag |-> "Exception"]

Fetched_reset(new_limits, p, t, raised) ==
    IF raised THEN NoLimits ELSE [new_limits EXCEPT ![p] = UsageLimits(p, t)]

\* try: new_limits[name] = await provider.get_limits()
\* except Exception: logger.error(...)
Fetched(new_limits, p, t, raised) ==
    IF raised THEN new_limits ELSE [new_limits EXCEPT ![p] = UsageLimits(p, t)]

\* the event loop starts the task
TaskStart(t) ==
    /\ tasks[t].pc = "created"
    /\ RunTaskFrom(t, 1, NoLimits)
    /\ UNCHANGED <<now, regVars, reqVars, tokens_file, update_limits_task,
                   callers, last>>

\* await provider.get_limits() returns a snapshot, or raises and is logged
TaskFetchDone(t, raised) ==
    /\ tasks[t].pc = "fetch"
    /\ LET p == Providers[tasks[t].at]
           new_limits == Fetched(tasks[t].new_limits, p, t, raised)
       IN  /\ RunTaskFrom(t, tasks[t].at + 1, new_limits)
           /\ last' = [op |-> "get_limits", arg |-> p,
                       ret |-> IF raised THEN GetLimitsError
                               ELSE UsageLimits(p, t),
                       pre |-> None]
    /\ UNCHANGED <<now, regVars, reqVars, tokens_file, update_limits_task,
                   callers>>

\* update_all_limits after await asyncio.shield(task), for one call that
\* awaited task t
LeaveUpdateAllLimits(t) ==
    /\ callers[t] > 0
    /\ tasks[t].pc = "done"
    /\ update_limits_task' = IF update_limits_task = t THEN 0
                             ELSE update_limits_task
    /\ callers' = [callers EXCEPT ![t] = @ - 1]
    /\ last' = [op |-> "update_all_limits", arg |-> None,
                ret |-> tasks[t].exception, pre |-> None]
    /\ UNCHANGED <<now, regVars, reqVars, tokens_file, cached_limits,
                   last_update, tasks>>

\* POST /api/v1/limits/refresh, the scheduler's update_limits job and the
\* lifespan start-up call
refresh_limits ==
    /\ EnterUpdateAllLimits
    /\ UNCHANGED <<now, regVars, reqVars, tokens_file, cached_limits,
                   last_update, last>>

----------------------------------------------------------------------------
(* Account endpoints (main.py) *)

\* the line feed character
LF == "\n"

\* ids a request can carry: the ids the store issues, a word that is no hex
\* number, and an issued id followed by a line feed (%0A in the path)
RequestIds == AccountIds \cup {"invalid", "0000000a\n"}

\* the ids that pass the format check or fail it as the tests' ids do
WellFormedIds == AccountIds \cup {"invalid"}

\* the characters of a request id
IdChars(account_id) ==
    CASE account_id = "0000000a"   -> <<"0", "0", "0", "0", "0", "0", "0", "a">>
      [] account_id = "0000000b"   -> <<"0", "0", "0", "0", "0", "0", "0", "b">>
      [] account_id = "invalid"    -> <<"i", "n", "v", "a", "l", "i", "d">>
      [] account_id = "0000000a\n" ->
             <<"0", "0", "0", "0", "0", "0", "0", "a", LF>>

\* [0-9a-f]
LowerHex == {"0", "1", "2", "3", "4", "5", "6", "7", "8", "9",
             "a", "b", "c", "d", "e", "f"}

ACCOUNT_ID_LENGTH == 8

\* s is ACCOUNT_ID_LENGTH characters of [0-9a-f]
IsHexId(s) ==
    /\ Len(s) = ACCOUNT_ID_LENGTH
    /\ \A i \in 1..Len(s) : s[i] \in LowerHex

PatternMatch_exact(s) == IsHexId(s)

\* ACCOUNT_ID_PATTERN.match(s) for "^[0-9a-f]{8}$": without re.MULTILINE
\* "$" matches at the end of the string and just before a line feed that
\* ends the string
PatternMatch(s) ==
    \/ IsHexId(s)
    \/ /\ Len(s) = ACCOUNT_ID_LENGTH + 1
       /\ IsHexId(SubSeq(s, 1, ACCOUNT_ID_LENGTH))
       /\ s[Len(s)] = LF

validate_account_id(account_id) == PatternMatch(IdChars(account_id))

Http(code, status) == [tag |-> "http", code |-> code, status |-> status]

\* the response is sent when update_all_limits returns
Awaiting == [tag |-> "awaiting update_all_limits"]

IsActiveIn_never(data, account_id) == FALSE

\* acc["id"] == account_id and acc.get("is_active") for some listed account
IsActiveIn(data, account_id) ==
    HasAccount(data, account_id) /\ data.active_account = account_id

\* DELETE /api/v1/accounts/{account_id}
http_delete_account(account_id) ==
    \E mig1 \in AccountIds, mig2 \in AccountIds :
        LET listed  == LoadAllData(tokens_file, mig1)
            success == /\ HasAccount(LoadAllData(tokens_file, mig2), account_id)
                       /\ SaveResult
            Reply(r) == [op |-> "http_delete_account", arg |-> account_id,
                         ret |-> r, pre |-> listed, file |-> tokens_file]
        IN
        IF ~validate_account_id(account_id)
        THEN /\ last' = Reply(Http(400, "Invalid account_id format"))
             /\ UNCHANGED <<now, regVars, reqVars, tokens_file, limVars>>
        ELSE IF IsActiveIn(listed, account_id)
        THEN /\ last' = Reply(Http(409, "Cannot delete active account"))
             /\ UNCHANGED <<now, regVars, reqVars, tokens_file, limVars>>
        ELSE IF ~success
        THEN /\ last' = Reply(Http(200, "error"))
             /\ UNCHANGED <<now, regVars, reqVars, tokens_file, limVars>>
        ELSE /\ tokens_file' = DeleteAccountFile(tokens_file, mig2, account_id)
             /\ cached_limits' = NoLimits
             /\ EnterUpdateAllLimitsFrom(ClearedUnder(tasks))
             /\ last' = Reply(Awaiting)
             /\ UNCHANGED <<now, regVars, reqVars, last_update>>

\* POST /api/v1/accounts/{account_id}/activate
http_activate_account(account_id) ==
    \E mig \in AccountIds :
        LET data    == LoadAllData(tokens_file, mig)
            success == HasAccount(data, account_id) /\ SaveResult
            Reply(r) == [op |-> "http_activate_account", arg |-> account_id,
                         ret |-> r, pre |-> data, file |-> tokens_file]
        IN
        IF ~validate_account_id(account_id)
        THEN /\ last' = Reply(Http(400, "Invalid account_id format"))
             /\ UNCHANGED <<now, regVars, reqVars, tokens_file, limVars>>
        ELSE IF ~success
        THEN /\ last' = Reply(Http(200, "error"))
             /\ UNCHANGED <<now, regVars, reqVars, tokens_file, limVars>>
        ELSE /\ tokens_file' = Saved([data EXCEPT !.active_account = account_id])
             /\ cached_limits' = NoLimits
             /\ EnterUpdateAllLimitsFrom(ClearedUnder(tasks))
             /\ last' = Reply(Awaiting)
             /\ UNCHANGED <<now, regVars, reqVars, last_update>>

\* PUT /api/v1/accounts/{account_id}/name
http_update_account_name(account_id, name) ==
    \E mig \in AccountIds :
        LET data    == LoadAllData(tokens_file, mig)
            success == HasAccount(data, account_id) /\ SaveResult
            Reply(r) == [op |-> "http_update_account_name", arg |-> account_id,
                         ret |-> r, pre |-> data, file |-> tokens_file]
        IN
        IF ~validate_account_id(account_id)
        THEN /\ last' = Reply(Http(400, "Invalid account_id format"))
             /\ UNCHANGED <<now, regVars, reqVars, tokens_file, limVars>>
        ELSE /\ tokens_file' = IF HasAccount(data, account_id)
                               THEN Saved(UpdateNameData(data, account_id, name))
                               ELSE tokens_file
             /\ last' = Reply(Http(200, IF success THEN "ok" ELSE "error"))
             /\ UNCHANGED <<now, regVars, reqVars, limVars>>

\* POST /api/v1/auth/{provider}/logout
http_logout(provider) ==
    \E mig1 \in AccountIds, mig2 \in AccountIds :
        /\ tokens_file' = DeleteTokensFile(tokens_file, mig1, mig2, provider)
        /\ cached_limits' = [cached_limits EXCEPT ![provider] = None]
        /\ last' = [op |-> "http_logout", arg |-> provider,
                    ret |-> Http(200,
                        IF DeleteTokensResult(tokens_file, mig1, mig2, provider)
                        THEN "ok" ELSE "error"),
                    pre |-> LoadAllData(tokens_file, mig1),
                    file |-> tokens_file]
        /\ UNCHANGED <<now, regVars, reqVars, last_update, update_limits_task,
                       tasks, callers>>

----------------------------------------------------------------------------
(* Rate limiting (main.py) *)

\* request.client.host of the clients that call
ClientIps == {"10.0.0.1", "127.0.0.1"}

\* the clients that call the authentication endpoints
AuthClientIps == {"10.0.0.1"}

\* seconds the clock may advance between requests: a timestamp gets 59
\* seconds old (inside the 60 second window), 60 (just outside), and
\* 120 and more (around the cleanup threshold of two windows)
RateSteps == {59, 60}

\* an empty dict
EmptyDict == [k \in {} |-> 0]

\* defaultdict(list): d[k], [] when k is missing
GetList(d, k) == IF k \in DOMAIN d THEN d[k] ELSE <<>>

PutKey_all(d, k, v) == [c \in DOMAIN d \cup {k} |-> v]

\* d[k] = v
PutKey(d, k, v) == [c \in DOMAIN d \cup {k} |-> IF c = k THEN v ELSE d[c]]

PopKeys_first(d, ks) ==
    [c \in DOMAIN d \ (IF ks = {} THEN {} ELSE {CHOOSE k \in ks : TRUE}) |-> d[c]]

\* d.pop(k, None) for every k in ks
PopKeys(d, ks) == [c \in DOMAIN d \ ks |-> d[c]]

RecentTimestamps_now(timestamps, window_start) ==
    LET Recent(ts) == ts > window_start + 1 IN SelectSeq(timestamps, Recent)

\* [ts for ts in timestamps if ts > window_start]
RecentTimestamps(timestamps, window_start) ==
    LET Recent(ts) == ts > window_start IN SelectSeq(timestamps, Recent)

Exceeded_late(timestamps, limit) == Len(timestamps) > limit

\* len(storage[client_ip]) >= limit
Exceeded(timestamps, limit) == Len(timestamps) >= limit

\* what check_rate_limit and check_auth_rate_limit return
CheckLimitResult(storage, client_ip, t, window, limit) ==
    ~Exceeded(RecentTimestamps(GetList(storage, client_ip), t - window), limit)

\* the timestamps they leave stored
CheckLimitStorage(storage, client_ip, t, window, limit) ==
    LET recent == RecentTimestamps(GetList(storage, client_ip), t - window) IN
    PutKey(storage, client_ip,
           IF Exceeded(recent, limit) THEN recent ELSE Append(recent, t))

\* the history after a call that returned ok
Admit(history, client_ip, ok, t) ==
    IF ok THEN [history EXCEPT ![client_ip] = Append(@, t)] ELSE history

check_rate_limit(client_ip) ==
    LET ok == CheckLimitResult(rate_limit_storage, client_ip, now,
                               RATE_LIMIT_WINDOW, RATE_LIMIT_REQUESTS)
    IN  /\ rate_limit_storage' =
              CheckLimitStorage(rate_limit_storage, client_ip, now,
                                RATE_LIMIT_WINDOW, RATE_LIMIT_REQUESTS)
        /\ rate_limit_last_seen' = PutKey(rate_limit_last_seen, client_ip, now)
        /\ admitted' = [admitted EXCEPT
                           !.general = Admit(@, client_ip, ok, now)]
        /\ last' = [op |-> "check_rate_limit", arg |-> client_ip,
                    ret |-> Bool(ok), pre |-> admitted.general[client_ip],
                    stored |-> GetList(rate_limit_storage, client_ip)]
        /\ UNCHANGED <<envVars, now, regVars, tokens_file, limVars,
                       auth_rate_limit_storage, auth_rate_limit_last_seen,
                       flowVars>>

check_auth_rate_limit(client_ip) ==
    LET ok == CheckLimitResult(auth_rate_limit_storage, client_ip, now,
                               AUTH_RATE_LIMIT_WINDOW, AUTH_RATE_LIMIT_REQUESTS)
    IN  /\ auth_rate_limit_storage' =
              CheckLimitStorage(auth_rate_limit_storage, client_ip, now,
                                AUTH_RATE_LIMIT_WINDOW,
                                AUTH_RATE_LIMIT_REQUESTS)
        /\ auth_rate_limit_last_seen' =
              PutKey(auth_rate_limit_last_seen, client_ip, now)
        /\ admitted' = [admitted EXCEPT !.auth = Admit(@, client_ip, ok, now)]
        /\ last' = [op |-> "check_auth_rate_limit", arg |-> client_ip,
                    ret |-> Bool(ok), pre |-> admitted.auth[client_ip],
                    stored |-> GetList(auth_rate_limit_storage, client_ip)]
        /\ UNCHANGED <<envVars,
                       now, regVars, tokens_file, limVars, rate_limit_storage,
                       rate_limit_last_seen, flowVars>>

CleanupKeys_recent(storage, last_seen, t, window) ==
    {ip \in DOMAIN last_seen : last_seen[ip] < t}
        \cup {ip \in DOMAIN storage : storage[ip] = <<>>}

\* expired_ips | orphaned_ips of one limiter
CleanupKeys(storage, last_seen, t, window) ==
    {ip \in DOMAIN last_seen : last_seen[ip] < t - window * 2}
        \cup {ip \in DOMAIN storage : storage[ip] = <<>>}

\* the scheduler's cleanup_rate_limit_storage job
cleanup_rate_limit_storage ==
    LET general == CleanupKeys(rate_limit_storage, rate_limit_last_seen, now,
                               RATE_LIMIT_WINDOW)
        auth    == CleanupKeys(auth_rate_limit_storage,
                               auth_rate_limit_last_seen, now,
                               AUTH_RATE_LIMIT_WINDOW)
    IN  /\ rate_limit_storage' = PopKeys(rate_limit_storage, general)
        /\ rate_limit_last_seen' = PopKeys(rate_limit_last_seen, general)
        /\ auth_rate_limit_storage' = PopKeys(auth_rate_limit_storage, auth)
        /\ auth_rate_limit_last_seen' = PopKeys(auth_rate_limit_last_seen, auth)
        /\ last' = [op |-> "cleanup_rate_limit_storage",
                    arg |-> MalformedState, ret |-> None,
                    pre |-> [general |-> [ip \in general |->
                                 GetList(rate_limit_storage, ip)],
                             auth |-> [ip \in auth |->
                                 GetList(auth_rate_limit_storage, ip)]]]
        /\ UNCHANGED <<envVars,
                       now, regVars, tokens_file, limVars, admitted, flowVars>>

\* time passes between requests
Elapse(d) == TickWithin(d, MaxRateTime)

----------------------------------------------------------------------------
(* The HTTP middleware stack (main.py) *)

\* request.method
Methods == {"GET", "OPTIONS"}

\* request.url.path: an exempt path written with a trailing slash, a protected
\* API route, and a path that is neither exempt nor protected by the token
RequestPaths == {"/health/", "/api/v1/limits", "/"}

\* AICAP_API_TOKEN, read from the environment when the module is imported;
\* NoToken when it is not set. A request is explored under either setting.
NoToken == ""
ApiTokens == {NoToken, "secret"}

\* request.headers.get(API_TOKEN_HEADER); NoToken when the header is missing
ProvidedTokens == {NoToken, "secret", "wrong"}

Request(method, path, client_ip, provided_token) ==
    [method |-> method, path |-> path, client_ip |-> client_ip,
     provided_token |-> provided_token]

\* path.rstrip("/")
RStripSlash(path) ==
    CASE path = "/health/" -> "/health"
      [] path = "/"        -> ""
      [] OTHER             -> path

\* the prefixes p tested by path.startswith(p) that the path starts with
PrefixesOf(path) ==
    CASE path = "/api/v1/limits" -> {"/api/"}
      [] OTHER                   -> {}

\* the first four characters of client_ip
ClientPrefix(client_ip) ==
    CASE client_ip = "127.0.0.1" -> "127."
      [] client_ip = "10.0.0.1"  -> "10.0"
      [] OTHER                   -> client_ip

\* _is_exempt_path
is_exempt_path(path) ==
    LET stripped   == RStripSlash(path)
        normalized == IF stripped = "" THEN "/" ELSE stripped
    IN  normalized \in {"/health", "/auth/callback"}

\* _requires_api_token
requires_api_token(path) ==
    IF is_exempt_path(path) THEN FALSE
    ELSE \/ path = "/openapi.json"
         \/ path = "/docs" \/ "/docs/" \in PrefixesOf(path)
         \/ path = "/redoc" \/ "/redoc/" \in PrefixesOf(path)
         \/ path = "/api" \/ "/api/" \in PrefixesOf(path)
         \/ path \in {"/status", "/metrics", "/limits"}
         \/ "/limits/" \in PrefixesOf(path)
         \/ "/auth/" \in PrefixesOf(path)

\* _is_loopback_client
is_loopback_client(client_ip) ==
    \/ client_ip \in {"localhost", "::1", "testclient"}
    \/ ClientPrefix(client_ip) = "127."

\* return await call_next(request)
CallNext == [tag |-> "call_next"]

\* what one middleware does with a request: whether it applies its check, and
\* the response it returns or CallNext; allowed is the result of
\* check_rate_limit for the client
Outcome(checked, response) == [checked |-> checked, response |-> response]

api_token_middleware(request, api_token) ==
    IF request.method = "OPTIONS" THEN Outcome(FALSE, CallNext)
    ELSE IF api_token = NoToken THEN Outcome(FALSE, CallNext)
    ELSE IF ~requires_api_token(request.path) THEN Outcome(FALSE, CallNext)
    ELSE IF \/ request.provided_token = NoToken
            \/ request.provided_token # api_token
         THEN Outcome(TRUE, Http(401, "Unauthorized"))
         ELSE Outcome(TRUE, CallNext)

rate_limit_middleware(request, allowed) ==
    IF request.method = "OPTIONS" THEN Outcome(FALSE, CallNext)
    ELSE IF ~allowed THEN Outcome(TRUE, Http(429, "Too many requests"))
    ELSE Outcome(TRUE, CallNext)

loopback_only_middleware(request, api_token) ==
    IF request.method = "OPTIONS" THEN Outcome(FALSE, CallNext)
    ELSE IF api_token # NoToken THEN Outcome(FALSE, CallNext)
    ELSE IF is_exempt_path(request.path) THEN Outcome(FALSE, CallNext)
    ELSE IF ~is_loopback_client(request.client_ip)
         THEN Outcome(TRUE, Http(403, "Access denied"))
         ELSE Outcome(TRUE, CallNext)

\* request_id_middleware applies no check
request_id_middleware(request) == Outcome(FALSE, CallNext)

\* the @app.middleware("http") functions in the order main.py registers them
Registered ==
    <<"api_token_middleware", "rate_limit_middleware",
      "loopback_only_middleware", "request_id_middleware">>

MiddlewareStack_registered == Registered

\* the order in which a request passes them: each registration puts the
\* function in front of those registered before it, so the last registered
\* is the first to run
MiddlewareStack == [i \in 1..Len(Registered) |->
                        Registered[Len(Registered) + 1 - i]]

RunMiddleware(name, request, api_token, allowed) ==
    CASE name = "api_token_middleware" ->
            api_token_middleware(request, api_token)
      [] name = "rate_limit_middleware" ->
            rate_limit_middleware(request, allowed)
      [] name = "loopback_only_middleware" ->
            loopback_only_middleware(request, api_token)
      [] name = "request_id_middleware" ->
            request_id_middleware(request)

\* the request passes down the stack until a middleware returns a response
\* or the route handler is reached; checks lists, in order, the middleware
\* that applied their check
RECURSIVE Dispatch(_, _, _, _, _)
Dispatch(stack, request, api_token, allowed, checks) ==
    IF stack = <<>>
    THEN [checks |-> checks, response |-> Str("route handler")]
    ELSE LET outcome == RunMiddleware(Head(stack), request, api_token, allowed)
             applied == IF outcome.checked THEN Append(checks, Head(stack))
                        ELSE checks
         IN  IF outcome.response = CallNext
             THEN Dispatch(Tail(stack), request, api_token, allowed, applied)
             ELSE [checks |-> applied, response |-> outcome.response]

\* one request through the middleware stack; check_rate_limit runs, and
\* counts the request, exactly when rate_limit_middleware applies its check
http_request(method, path, client_ip, api_token, provided_token) ==
    LET request == Request(method, path, client_ip, provided_token)
        allowed == CheckLimitResult(rate_limit_storage, client_ip, now,
                                    RATE_LIMIT_WINDOW, RATE_LIMIT_REQUESTS)
        result  == Dispatch(MiddlewareStack, request, api_token, allowed, <<>>)
        counted == \E i \in 1..Len(result.checks) :
                       result.checks[i] = "rate_limit_middleware"
    IN  /\ IF counted
           THEN /\ rate_limit_storage' =
                      CheckLimitStorage(rate_limit_storage, client_ip, now,
                                        RATE_LIMIT_WINDOW, RATE_LIMIT_REQUESTS)
                /\ rate_limit_last_seen' =
                      PutKey(rate_limit_last_seen, client_ip, now)
                /\ admitted' = [admitted EXCEPT
                                   !.general = Admit(@, client_ip, allowed, now)]
           ELSE UNCHANGED <<rate_limit_storage, rate_limit_last_seen, admitted>>
        /\ last' = [op |-> "http_request", arg |-> client_ip,
                    ret |-> result.response, pre |-> admitted.general[client_ip],
                    request |-> request, api_token |-> api_token,
                    checks |-> result.checks]
        /\ UNCHANGED <<envVars, now, regVars, tokens_file, limVars,
                       auth_rate_limit_storage, auth_rate_limit_last_seen,
                       flowVars>>

----------------------------------------------------------------------------
(* OAuth login and callback (main.py, oauth.py, google_oauth.py) *)

CallbackIds == 1..MaxCallbacks

\* _generate_pkce: secrets.token_urlsafe(32), a fresh verifier for each flow;
\* n is the nonce drawn in the same call of create_authorization_flow
PkceVerifier(n) == [tag |-> "verifier", n |-> n]

\* AuthorizationFlow; the challenge and the URL follow from the verifier and
\* the state
AuthorizationFlow(state, created_at, add_new_account) ==
    [state |-> state, created_at |-> created_at,
     add_new_account |-> add_new_account, pkce |-> PkceVerifier(state.nonce)]

\* a request that has not arrived; pc is "idle", "post" (suspended in the
\* token-endpoint POST), "get_limits" (suspended in provider.get_limits())
\* or "done"; verifier is the code_verifier of its POST
IdleCallback ==
    [pc |-> "idle", state |-> MalformedState, add_new_account |-> FALSE,
     posted |-> FALSE, verifier |-> None, wrote |-> FALSE, page |-> "none"]

\* the (provider, add_account) pairs logins are started with
LoginKinds ==
    {<<"openai", FALSE>>, <<"openai", TRUE>>, <<"antigravity", FALSE>>}

\* what the token endpoint can answer
TokenReplies == {"RequestError", "status", "json", "fields", "ok"}

\* GoogleOAuth._cleanup_expired_flows_unsafe
CleanupExpiredFlows(flows, t) ==
    LET live == {s \in DOMAIN flows :
                    ~(t - flows[s].created_at > FLOW_EXPIRATION_SECONDS)}
    IN  [s \in live |-> flows[s]]

\* GET /api/v1/auth/{provider}/login
login(provider, add_account, client_ip) ==
    LET ok == CheckLimitResult(auth_rate_limit_storage, client_ip, now,
                               AUTH_RATE_LIMIT_WINDOW, AUTH_RATE_LIMIT_REQUESTS)
        nonce == next_nonce
        state == MakeState(nonce, Hmac(nonce, now))
        data  == StateData(state, now, add_account, nonce, provider)
        flow  == AuthorizationFlow(state, now, add_account)
    IN  /\ next_nonce <= MaxLogins
        /\ auth_rate_limit_storage' =
              CheckLimitStorage(auth_rate_limit_storage, client_ip, now,
                                AUTH_RATE_LIMIT_WINDOW,
                                AUTH_RATE_LIMIT_REQUESTS)
        /\ auth_rate_limit_last_seen' =
              PutKey(auth_rate_limit_last_seen, client_ip, now)
        /\ admitted' = [admitted EXCEPT !.auth = Admit(@, client_ip, ok, now)]
        /\ IF ~ok
           THEN /\ last' = [op |-> "login", arg |-> MalformedState,
                            ret |-> Http(429, "Too many authentication attempts"),
                            pre |-> None]
                /\ UNCHANGED <<regVars, pending_flow, pending_flows>>
           ELSE /\ pending_states' = CreateStateTable(pending_states, data, now)
                /\ minted' = minted \cup {state}
                /\ next_nonce' = next_nonce + 1
                /\ IF provider = "openai"
                   THEN /\ pending_flow' = flow
                        /\ UNCHANGED pending_flows
                   ELSE /\ pending_flows' =
                             PutKey(CleanupExpiredFlows(pending_flows, now),
                                    state, flow)
                        /\ UNCHANGED pending_flow
                /\ last' = [op |-> "login", arg |-> state,
                            ret |-> Http(200, "ok"), pre |-> None]
        /\ UNCHANGED <<envVars, refresh,
                       now, tokens_file, limVars, rate_limit_storage,
                       rate_limit_last_seen, callbacks>>

\* how a request ends
Finished(cb, page) == [cb EXCEPT !.pc = "done", !.page = page]

\* what the exchange_code calls of a request came to, by provider
Exchanged(openai, antigravity) ==
    [openai |-> openai, antigravity |-> antigravity]

NotCalled == Str("not called")

\* exchange is what the provider loop got from each exchange_code call so far
Replied(state, page, exchange) ==
    [op |-> "auth_callback", arg |-> state, ret |-> Str(page), pre |-> None,
     exchange |-> exchange]

\* OpenAIOAuth.exchange_code returned None and GoogleOAuth.exchange_code
\* raised at oauth_state_manager.validate_and_consume
ExchangeFailed == Exchanged(None, AttributeError)

\* OpenAIOAuth.exchange_code is suspended in its POST
ExchangeAwaiting == Exchanged(Str("awaiting"), NotCalled)

\* OpenAIOAuth.exchange_code returned the TokenData
ExchangeReturned == Exchanged(Str("TokenData"), NotCalled)

\* GET /auth/callback up to its first suspension: the rate limit, the state
\* check, and OpenAIOAuth.exchange_code up to the POST. When exchange_code
\* returns None the provider loop goes on to GoogleOAuth.exchange_code, whose
\* first statement raises AttributeError (validate_and_consume), and the
\* request ends with an internal server error
auth_callback(r, client_ip, state) ==
    LET ok == CheckLimitResult(auth_rate_limit_storage, client_ip, now,
                               AUTH_RATE_LIMIT_WINDOW, AUTH_RATE_LIMIT_REQUESTS)
        state_data == ValidateStateResult(pending_states, state, now)
        cb == [callbacks[r] EXCEPT !.state = state]
    IN  /\ callbacks[r].pc = "idle"
        /\ \A q \in CallbackIds : q < r => callbacks[q].pc # "idle"
        /\ auth_rate_limit_storage' =
              CheckLimitStorage(auth_rate_limit_storage, client_ip, now,
                                AUTH_RATE_LIMIT_WINDOW,
                                AUTH_RATE_LIMIT_REQUESTS)
        /\ auth_rate_limit_last_seen' =
              PutKey(auth_rate_limit_last_seen, client_ip, now)
        /\ admitted' = [admitted EXCEPT !.auth = Admit(@, client_ip, ok, now)]
        /\ IF ~ok
           THEN /\ callbacks' = [callbacks EXCEPT
                                    ![r] = Finished(cb, "Too Many Requests")]
                /\ last' = Replied(state, "Too Many Requests",
                                        Exchanged(NotCalled, NotCalled))
                /\ UNCHANGED pending_states
           ELSE /\ pending_states' =
                      ValidateStateTable(pending_states, state, now)
                /\ IF state_data = None
                   THEN /\ callbacks' = [callbacks EXCEPT
                               ![r] = Finished(cb, "Invalid State")]
                        /\ last' = Replied(state, "Invalid State",
                                   Exchanged(NotCalled, NotCalled))
                   ELSE IF pending_flow = None \/ pending_flow.state # state
                   THEN /\ callbacks' = [callbacks EXCEPT
                               ![r] = Finished(cb, "Internal Server Error")]
                        /\ last' = Replied(state, "Internal Server Error",
                                        ExchangeFailed)
                   ELSE /\ callbacks' = [callbacks EXCEPT ![r] =
                               [cb EXCEPT !.pc = "post", !.posted = TRUE,
                                   !.verifier = pending_flow.pkce,
                                   !.add_new_account =
                                       state_data.add_new_account]]
                        /\ last' = Replied(state, "pending", ExchangeAwaiting)
        /\ UNCHANGED <<envVars, refresh,
                       now, next_nonce, minted, tokens_file, limVars,
                       rate_limit_storage, rate_limit_last_seen, pending_flow,
                       pending_flows>>

\* the token endpoint answers request r: the rest of OpenAIOAuth.exchange_code
\* and auth_callback up to await provider.get_limits()
token_response(r, reply, tokens) ==
    LET cb == callbacks[r] IN
    /\ cb.pc = "post"
    /\ pending_flow' = None
    /\ IF reply # "ok"
       THEN /\ callbacks' = [callbacks EXCEPT
                                ![r] = Finished(cb, "Internal Server Error")]
            /\ last' = Replied(cb.state, "Internal Server Error",
                               ExchangeFailed)
            /\ UNCHANGED <<pending_states, tokens_file>>
       ELSE /\ \E mig1 \in AccountIds, mig2 \in AccountIds,
                  account_id \in AccountIds :
                  tokens_file' =
                      IF cb.add_new_account
                      THEN Saved(CreateAccountData(
                               LoadAllData(tokens_file, mig1), account_id,
                               "openai", tokens, ""))
                      ELSE SaveTokensFile(tokens_file, mig1, mig2, account_id,
                                          "openai", tokens)
            /\ pending_states' = DelState(pending_states, cb.state)
            /\ callbacks' = [callbacks EXCEPT ![r] =
                                [cb EXCEPT !.pc = "get_limits", !.wrote = TRUE]]
            /\ last' = Replied(cb.state, "pending", ExchangeReturned)
    /\ UNCHANGED <<envVars, refresh,
                   now, next_nonce, minted, limVars, rlVars, pending_flows>>

\* provider.get_limits() returns to request r, or raises
limits_response(r, raised) ==
    LET cb == callbacks[r] IN
    /\ cb.pc = "get_limits"
    /\ IF raised
       THEN /\ callbacks' = [callbacks EXCEPT
                                ![r] = Finished(cb, "Internal Server Error")]
            /\ last' = Replied(cb.state, "Internal Server Error",
                               ExchangeReturned)
            /\ UNCHANGED cached_limits
       ELSE /\ cached_limits' = [cached_limits EXCEPT
                                    !["openai"] = UsageLimits("openai", 0)]
            /\ callbacks' = [callbacks EXCEPT
                                ![r] = Finished(cb, "Authentication Successful")]
            /\ last' = Replied(cb.state, "Authentication Successful",
                               ExchangeReturned)
    /\ UNCHANGED <<envVars, refresh,
                   now, regVars, tokens_file, last_update, update_limits_task,
                   tasks, callers, rlVars, pending_flow, pending_flows>>

\* GoogleOAuth.exchange_code(code, state) called by itself: its first
\* statement, oauth_state_manager.validate_and_consume(...), raises
\* AttributeError before the flow table is read or the token endpoint is
\* contacted
google_exchange_code(state) ==
    /\ last' = [op |-> "GoogleOAuth.exchange_code", arg |-> state,
                ret |-> AttributeError, pre |-> None]
    /\ UNCHANGED <<now, regVars, reqVars, tokens_file, limVars>>

----------------------------------------------------------------------------
(* refresh_tokens (oauth.py, google_oauth.py) *)

\* the dictionary save_tokens is given: access_token, refresh_token and
\* expires_at
TokenDict(access_token, refresh_token, expires_at) ==
    [access_token |-> access_token, refresh_token |-> refresh_token,
     expires_at |-> expires_at]

TokenData(access_token, refresh_token, expires_at) ==
    [tag |-> "TokenData", access_token |-> access_token,
     refresh_token |-> refresh_token, expires_at |-> expires_at]

KeyError == [tag |-> "KeyError"]

\* the token dictionary a login stores
LoginTokens == TokenDict("access0", "refresh0", 0)

\* JSON bodies of a 200 answer: keys holds the keys that are present
Body(keys) ==
    [keys |-> keys, access_token |-> "access1", refresh_token |-> "refresh1",
     expires_in |-> 3600]

AllKeys == {"access_token", "refresh_token", "expires_in"}

RefreshBodies ==
    {Body(AllKeys), Body(AllKeys \ {"refresh_token"}),
     Body(AllKeys \ {"access_token"})}

\* what the token endpoint can answer to a refresh
RefreshReplies ==
    {[status |-> st, body |-> Body({})] :
        st \in {"RequestError", "5xx", "4xx", "not json"}}
        \cup {[status |-> "200", body |-> b] : b \in RefreshBodies}

\* after the last attempt of `for attempt in range(max_retries)` nothing is
\* retried
MaxRetries == 3

\* pc is "idle", "post" (suspended in the POST of attempt `attempt`, or in
\* the sleep before it) or "done"; stored_refresh is stored["refresh_token"]
\* and account the id of the account get_tokens read it from; outcome is how
\* the latest POST ended (the status of `response`, or "RequestError")
IdleRefresh ==
    [pc |-> "idle", provider |-> "", stored_refresh |-> "", account |-> NoneId,
     attempt |-> 0, posts |-> 0, outcome |-> ""]

\* the TokenData refresh_tokens builds from the parsed body: OpenAIOAuth
\* subscripts data["access_token"], data["refresh_token"] and
\* data["expires_in"]; GoogleOAuth uses data.get with the stored refresh
\* token and 3600 as defaults
ParseRefresh(provider, stored_refresh, body, t) ==
    IF provider = "openai"
    THEN IF AllKeys \subseteq body.keys
         THEN TokenData(body.access_token, body.refresh_token,
                        t + body.expires_in)
         ELSE KeyError
    ELSE IF "access_token" \notin body.keys THEN None
         ELSE TokenData(body.access_token,
                        IF "refresh_token" \in body.keys
                        THEN body.refresh_token ELSE stored_refresh,
                        t + (IF "expires_in" \in body.keys
                             THEN body.expires_in ELSE 3600))

RefreshReturned(provider, result, reply, stored_refresh) ==
    [op |-> "refresh_tokens", arg |-> provider, ret |-> result, pre |-> None,
     reply |-> reply, stored_refresh |-> stored_refresh]

\* refresh_tokens up to the first POST
refresh_tokens(provider) ==
    \E mig \in AccountIds :
        /\ refresh.pc = "idle"
        /\ IF ~HasTokens(tokens_file, mig, provider)
           THEN /\ refresh' = [IdleRefresh EXCEPT !.pc = "done",
                                   !.provider = provider]
                /\ last' = RefreshReturned(provider, None, None, "")
           ELSE /\ refresh' =
                     [pc |-> "post", provider |-> provider,
                      stored_refresh |->
                          GetTokens(tokens_file, mig, provider).refresh_token,
                      account |->
                          ActiveAccountId(LoadAllData(tokens_file, mig),
                                          provider),
                      attempt |-> 0, posts |-> 1, outcome |-> ""]
                /\ UNCHANGED last
        /\ UNCHANGED <<now, regVars, tokens_file, limVars, rlVars, envVars,
                       pending_flow, pending_flows, callbacks>>

refresh_response_again(reply) ==
    LET rf == [refresh EXCEPT !.outcome = reply.status]
        retry == /\ reply.status \in {"RequestError", "5xx"}
                 /\ rf.attempt < MaxRetries
        result == IF reply.status = "200"
                  THEN ParseRefresh(rf.provider, rf.stored_refresh,
                                    reply.body, now)
                  ELSE None
    IN  /\ rf.pc = "post"
        /\ IF retry
           THEN /\ refresh' = [rf EXCEPT !.attempt = @ + 1, !.posts = @ + 1]
                /\ UNCHANGED <<tokens_file, last>>
           ELSE /\ refresh' = [rf EXCEPT !.pc = "done"]
                /\ last' = RefreshReturned(rf.provider, result, reply,
                                           rf.stored_refresh)
                /\ IF result.tag = "TokenData"
                   THEN \E mig1 \in AccountIds, mig2 \in AccountIds,
                           account_id \in AccountIds :
                           tokens_file' =
                               SaveTokensFile(tokens_file, mig1, mig2,
                                   account_id, rf.provider,
                                   TokenDict(result.access_token,
                                             result.refresh_token,
                                             result.expires_at))
                   ELSE UNCHANGED tokens_file
        /\ UNCHANGED <<now, regVars, limVars, rlVars, envVars, pending_flow,
                       pending_flows, callbacks>>

\* the POST of the current attempt ends: a retry after a network error or a
\* 5xx answer, None after a 4xx answer or the last attempt, and on a 200
\* answer the parsed tokens are saved and returned
refresh_response(reply) ==
    LET rf == [refresh EXCEPT !.outcome = reply.status]
        retry == /\ reply.status \in {"RequestError", "5xx"}
                 /\ rf.attempt < MaxRetries - 1
        result == IF reply.status = "200"
                  THEN ParseRefresh(rf.provider, rf.stored_refresh,
                                    reply.body, now)
                  ELSE None
    IN  /\ rf.pc = "post"
        /\ IF retry
           THEN /\ refresh' = [rf EXCEPT !.attempt = @ + 1, !.posts = @ + 1]
                /\ UNCHANGED <<tokens_file, last>>
           ELSE /\ refresh' = [rf EXCEPT !.pc = "done"]
                /\ last' = RefreshReturned(rf.provider, result, reply,
                                           rf.stored_refresh)
                /\ IF result.tag = "TokenData"
                   THEN \E mig1 \in AccountIds, mig2 \in AccountIds,
                           account_id \in AccountIds :
                           tokens_file' =
                               SaveTokensFile(tokens_file, mig1, mig2,
                                   account_id, rf.provider,
                                   TokenDict(result.access_token,
                                             result.refresh_token,
                                             result.expires_at))
                   ELSE UNCHANGED tokens_file
        /\ UNCHANGED <<now, regVars, limVars, rlVars, envVars, pending_flow,
                       pending_flows, callbacks>>

\* the caller has its answer; the next refresh_tokens call can start
refresh_returned ==
    /\ refresh.pc = "done"
    /\ refresh' = IdleRefresh
    /\ UNCHANGED <<now, regVars, tokens_file, limVars, rlVars, envVars,
                   pending_flow, pending_flows, callbacks, last>>

----------------------------------------------------------------------------
Init ==
    /\ now = 0
    /\ pending_states = <<>>
    /\ next_nonce = 1
    /\ minted = {}
    /\ tokens_file = AbsentFile
    /\ cached_limits = NoLimits
    /\ last_update = None
    /\ update_limits_task = 0
    /\ tasks = [t \in TaskIds |-> NoTask]
    /\ callers = [t \in TaskIds |-> 0]
    /\ rate_limit_storage = EmptyDict
    /\ rate_limit_last_seen = EmptyDict
    /\ auth_rate_limit_storage = EmptyDict
    /\ auth_rate_limit_last_seen = EmptyDict
    /\ admitted = [general |-> [c \in ClientIps |-> <<>>],
                   auth |-> [c \in ClientIps |-> <<>>]]
    /\ pending_flow = None
    /\ pending_flows = EmptyDict
    /\ callbacks = [r \in CallbackIds |-> IdleCallback]
    /\ refresh = IdleRefresh
    /\ disk_writable = TRUE
    /\ disk_readable = TRUE
    /\ cycles = [w \in Workers |-> IdleCycle]
    /\ serial = EmptyDb
    /\ last = [op |-> "init", arg |-> MalformedState, ret |-> None,
               pre |-> None]

\* the credential file the process starts with: none, one written in the old
\* single-account format, or one that no longer decrypts
InitCred ==
    /\ now = 0
    /\ pending_states = <<>>
    /\ next_nonce = 1
    /\ minted = {}
    /\ tokens_file \in {AbsentFile, LegacyFile, CorruptFile}
    /\ cached_limits = NoLimits
    /\ last_update = None
    /\ update_limits_task = 0
    /\ tasks = [t \in TaskIds |-> NoTask]
    /\ callers = [t \in TaskIds |-> 0]
    /\ rate_limit_storage = EmptyDict
    /\ rate_limit_last_seen = EmptyDict
    /\ auth_rate_limit_storage = EmptyDict
    /\ auth_rate_limit_last_seen = EmptyDict
    /\ admitted = [general |-> [c \in ClientIps |-> <<>>],
                   auth |-> [c \in ClientIps |-> <<>>]]
    /\ pending_flow = None
    /\ pending_flows = EmptyDict
    /\ callbacks = [r \in CallbackIds |-> IdleCallback]
    /\ refresh = IdleRefresh
    /\ disk_writable = TRUE
    /\ disk_readable = TRUE
    /\ cycles = [w \in Workers |-> IdleCycle]
    /\ serial = EmptyDb
    /\ last = [op |-> "init", arg |-> MalformedState, ret |-> None,
               pre |-> None]

NextState ==
    \/ \E k \in StateKinds : create_state(k[1], k[2])
    \/ \E s \in PresentedStates : validate_state(s)
    \/ \E s \in PresentedStates : consume_state(s)
    \/ cleanup_expired
    \/ \E s \in PresentedStates, p \in ProviderSet : validate_and_consume(s, p)
    \/ \E d \in TickSteps : Tick(d)

SpecState == Init /\ [][NextState]_vars

\* the methods OAuthStateManager defines
NextStateManager ==
    \/ \E k \in StateKinds : create_state(k[1], k[2])
    \/ \E s \in PresentedStates : validate_state(s)
    \/ \E s \in PresentedStates : consume_state(s)
    \/ cleanup_expired
    \/ \E d \in TickSteps : Tick(d)

SpecStateManager == Init /\ [][NextStateManager]_vars

\* the CredentialManager operations, one call at a time
NextCred ==
    \/ \E p \in ProviderSet, t \in TokenSets : create_account(p, t, "")
    \/ \E id \in AccountIds : set_active_account(id)
    \/ \E id \in AccountIds, n \in GivenNames : update_account_name(id, n)
    \/ \E id \in AccountIds, t \in TokenSets : update_account_tokens(id, t)
    \/ \E id \in AccountIds : delete_account(id)
    \/ \E p \in ProviderSet, t \in TokenSets : save_tokens(p, t)
    \/ \E p \in ProviderSet : delete_tokens(p)

SpecCred == InitCred /\ [][NextCred]_vars

\* the account endpoints and the limits refresh, with accounts created as the
\* code exchange creates them
NextApi ==
    \/ \E p \in ProviderSet : create_account(p, "tokens1", "")
    \/ \E id \in WellFormedIds : http_delete_account(id)
    \/ \E id \in WellFormedIds : http_activate_account(id)
    \/ \E t \in TaskIds : TaskStart(t)
    \/ \E t \in TaskIds, raised \in BOOLEAN : TaskFetchDone(t, raised)
    \/ \E t \in TaskIds : LeaveUpdateAllLimits(t)

SpecApi == InitCred /\ [][NextApi]_vars

\* the three endpoints that take an account id, called with every kind of id,
\* over the accounts of one provider and with the limits refresh they start
NextAccountApi ==
    \/ create_account("openai", "tokens1", "")
    \/ \E id \in RequestIds : http_delete_account(id)
    \/ \E id \in RequestIds : http_activate_account(id)
    \/ \E id \in RequestIds, n \in GivenNames : http_update_account_name(id, n)
    \/ \E t \in TaskIds : TaskStart(t)
    \/ \E t \in TaskIds : TaskFetchDone(t, FALSE)
    \/ \E t \in TaskIds : LeaveUpdateAllLimits(t)

SpecAccountApi == InitCred /\ [][NextAccountApi]_vars

\* the limits refresh as the refresh endpoint, the scheduler and logins and
\* logouts drive it
NextRefresh ==
    \/ \E p \in ProviderSet : save_tokens(p, "tokens1")
    \/ \E p \in ProviderSet : http_logout(p)
    \/ refresh_limits
    \/ \E t \in TaskIds : TaskStart(t)
    \/ \E t \in TaskIds, raised \in BOOLEAN : TaskFetchDone(t, raised)
    \/ \E t \in TaskIds : LeaveUpdateAllLimits(t)

SpecRefresh == Init /\ [][NextRefresh]_vars

\* the rate limiters under requests of several clients and the cleanup job
NextRL ==
    \/ \E c \in ClientIps : check_rate_limit(c)
    \/ \E c \in AuthClientIps : check_auth_rate_limit(c)
    \/ cleanup_rate_limit_storage
    \/ \E d \in RateSteps : Elapse(d)

SpecRL == Init /\ [][NextRL]_vars

\* requests through the middleware stack, with the cleanup job and a clock
\* that advances by one window at a time
NextRequest ==
    \/ \E method \in Methods, path \in RequestPaths, c \in ClientIps,
          api_token \in ApiTokens, provided_token \in ProvidedTokens :
          http_request(method, path, c, api_token, provided_token)
    \/ cleanup_rate_limit_storage
    \/ Elapse(RATE_LIMIT_WINDOW)

SpecRequest == Init /\ [][NextRequest]_vars

\* logins and OAuth callbacks, several callbacks in flight at once
NextAuth ==
    \/ \E k \in LoginKinds, c \in AuthClientIps : login(k[1], k[2], c)
    \/ \E r \in CallbackIds, c \in ClientIps, s \in PresentedStates :
          auth_callback(r, c, s)
    \/ \E r \in CallbackIds, reply \in TokenReplies :
          token_response(r, reply, "tokens1")
    \/ \E r \in CallbackIds, raised \in BOOLEAN : limits_response(r, raised)

SpecAuth == Init /\ [][NextAuth]_vars

\* store calls of several requests in flight together
NextCycle ==
    \/ \E w \in Workers, call \in CycleCalls : CycleArrive(w, call)
    \/ \E w \in Workers : CycleLoad(w)
    \/ \E w \in Workers : CycleSave(w)

SpecCycle == Init /\ [][NextCycle]_vars

\* token refreshes of providers that are logged in
NextTokenRefresh ==
    \/ \E p \in ProviderSet : save_tokens(p, LoginTokens)
    \/ \E p \in ProviderSet : delete_tokens(p)
    \/ \E p \in ProviderSet : refresh_tokens(p)
    \/ \E reply \in RefreshReplies : refresh_response(reply)
    \/ refresh_returned

SpecTokenRefresh == Init /\ [][NextTokenRefresh]_vars

\* every POST ends: the client has timeout=30.0, so the await returns a
\* response or raises httpx.RequestError, and the sleeps between attempts end
SpecTokenRefreshFair ==
    /\ Init
    /\ [][NextTokenRefresh]_vars
    /\ WF_vars(\E reply \in RefreshReplies : refresh_response(reply))

\* the token dictionary of an account that a second login added
AddedTokens == TokenDict("access2", "refresh2", 0)

\* the answers to a refresh that end it at the first attempt
FinalReplies == {reply \in RefreshReplies : reply.status \in {"200", "4xx"}}

\* token refreshes of one provider while its accounts are added, activated
\* and deleted
NextRefreshSwitch ==
    \/ \E t \in {LoginTokens, AddedTokens} : create_account("openai", t, "")
    \/ \E id \in AccountIds : set_active_account(id)
    \/ \E id \in AccountIds : delete_account(id)
    \/ refresh_tokens("openai")
    \/ \E reply \in FinalReplies : refresh_response(reply)
    \/ refresh_returned

SpecRefreshSwitch == Init /\ [][NextRefreshSwitch]_vars

\* OpenAI logins, code exchanges and token refreshes on a disk that can
\* refuse writes
NextPersist ==
    \/ \E add \in BOOLEAN, c \in AuthClientIps : login("openai", add, c)
    \/ \E r \in CallbackIds, c \in AuthClientIps, s \in PresentedStates :
          auth_callback(r, c, s)
    \/ \E r \in CallbackIds, reply \in {"status", "ok"} :
          token_response(r, reply, LoginTokens)
    \/ \E r \in CallbackIds : limits_response(r, FALSE)
    \/ refresh_tokens("openai")
    \/ \E reply \in FinalReplies : refresh_response(reply)
    \/ refresh_returned
    \/ WriteFault

SpecPersist == Init /\ [][NextPersist]_vars

\* OpenAI logins and code exchanges (storing "tokens1") over accounts of both
\* providers that earlier logins stored (with "tokens2")
NextExchange ==
    \/ \E p \in ProviderSet : create_account(p, "tokens2", "")
    \/ \E id \in AccountIds : set_active_account(id)
    \/ \E add \in BOOLEAN, c \in AuthClientIps : login("openai", add, c)
    \/ \E r \in CallbackIds, c \in AuthClientIps, s \in PresentedStates :
          auth_callback(r, c, s)
    \/ \E r \in CallbackIds, reply \in {"status", "ok"} :
          token_response(r, reply, "tokens1")
    \/ \E r \in CallbackIds : limits_response(r, FALSE)

SpecExchange == Init /\ [][NextExchange]_vars

\* logins of both providers and their code exchanges while the clock runs
\* past the expiry of flows and states
NextFlowExpiry ==
    \/ \E p \in ProviderSet, c \in AuthClientIps : login(p, FALSE, c)
    \/ \E r \in CallbackIds, c \in AuthClientIps, s \in minted :
          auth_callback(r, c, s)
    \/ \E r \in CallbackIds, reply \in {"status", "ok"} :
          token_response(r, reply, "tokens1")
    \/ \E r \in CallbackIds : limits_response(r, FALSE)
    \/ \E s \in minted : google_exchange_code(s)
    \/ \E d \in TickSteps : Tick(d)

SpecFlowExpiry == Init /\ [][NextFlowExpiry]_vars

\* the CredentialManager operations on a disk that can refuse writes
NextWriteFault ==
    \/ NextCred
    \/ WriteFault

SpecWriteFault == InitCred /\ [][NextWriteFault]_vars

\* the limits refresh while the credential file can become unreadable
NextReadFault ==
    \/ \E p \in ProviderSet : save_tokens(p, "tokens1")
    \/ ReadFault
    \/ refresh_limits
    \/ \E t \in TaskIds : TaskStart(t)
    \/ \E t \in TaskIds, raised \in BOOLEAN : TaskFetchDone(t, raised)
    \/ \E t \in TaskIds : LeaveUpdateAllLimits(t)

SpecReadFault == Init /\ [][NextReadFault]_vars

----------------------------------------------------------------------------
(* Properties of the OAuth state registry *)

PendingSet == SeqToSet(pending_states)

\* the entries of a table that are within the TTL at time t
LiveAt(states, t) ==
    {d \in SeqToSet(states) : t - d.created_at <= OAUTH_STATE_EXPIRATION}

\* C1: a minted state that is pending and unexpired validates-and-consumes
\* successfully exactly once: the first validate_and_consume returns its
\* record and removes it, and a call for a state that is no longer pending
\* returns None.
C1_ValidateAndConsumeOnce ==
    last.op = "validate_and_consume" =>
        IF last.pre # None /\ now - last.pre.created_at <= OAUTH_STATE_EXPIRATION
        THEN last.ret = last.pre /\ ~HasState(pending_states, last.arg)
        ELSE last.ret = None

\* C3: a state older than the TTL is never validated successfully:
\* validate_state returns None for it and removes it from the registry.
C3_ExpiredStateRejected ==
    (/\ last.op = "validate_state"
     /\ last.pre # None
     /\ now - last.pre.created_at > OAUTH_STATE_EXPIRATION)
    => (last.ret = None /\ ~HasState(pending_states, last.arg))

C3_Witness ==
    /\ last.op = "validate_state"
    /\ last.pre # None
    /\ now - last.pre.created_at > OAUTH_STATE_EXPIRATION
    /\ last.ret = None
    /\ ~HasState(pending_states, last.arg)
    /\ Len(pending_states) > 0

\* C4: the registry never holds more than MAX_PENDING_STATES states, and a
\* create_state that finds it at capacity evicts the oldest half by
\* created_at: no evicted state is younger than a pre-existing state kept.
C4_CapacityAndOldestFirst ==
    /\ Len(pending_states) <= MAX_PENDING_STATES
    /\ last.op = "create_state" =>
         LET live    == LiveAt(last.pre, now)
             kept    == live \cap PendingSet
             evicted == live \ kept
         IN  /\ Cardinality(live) >= MAX_PENDING_STATES
                  => Cardinality(evicted) = Cardinality(live) \div 2
             /\ Cardinality(live) < MAX_PENDING_STATES => evicted = {}
             /\ \A e \in evicted, k \in kept : e.created_at <= k.created_at
             /\ HasState(pending_states, last.arg)

C4_Witness ==
    /\ last.op = "create_state"
    /\ Len(pending_states) = MAX_PENDING_STATES
    /\ LET live    == LiveAt(last.pre, now)
           kept    == live \cap PendingSet
           evicted == live \ kept
       IN  /\ Cardinality(live) >= MAX_PENDING_STATES
           /\ \E e \in evicted, k \in kept : e.created_at < k.created_at

----------------------------------------------------------------------------
(* Properties of the credential store *)

\* the databases a load of the credential file can return
LoadedDbs == {LoadAllData(tokens_file, mig) : mig \in AccountIds}

\* C5: after any sequence of CredentialManager operations, and after the
\* legacy migration on load, active_account is None or the id of an account
\* present in accounts.
C5_ActiveAccountExists ==
    \A data \in LoadedDbs :
        \/ data.active_account = NoneId
        \/ data.active_account \in AccountIdsOf(data)

C5_Witness ==
    /\ last.op = "delete_account"
    /\ last.ret = Bool(TRUE)
    /\ last.pre.active_account = last.arg
    /\ tokens_file.kind = "data"
    /\ tokens_file.data.active_account \in AccountIdsOf(tokens_file.data)

\* C6: delete_account on the active account removes it and makes some
\* remaining account active, or None when no account remains; delete_account
\* on another account leaves active_account unchanged.
C6_DeletePromotesOrClears ==
    (last.op = "delete_account" /\ HasAccount(last.pre, last.arg)) =>
        /\ tokens_file.kind = "data"
        /\ LET post == tokens_file.data IN
           /\ AccountIdsOf(post) = AccountIdsOf(last.pre) \ {last.arg}
           /\ IF last.pre.active_account = last.arg
              THEN IF post.accounts = <<>>
                   THEN post.active_account = NoneId
                   ELSE post.active_account \in AccountIdsOf(post)
              ELSE post.active_account = last.pre.active_account

C6_Witness ==
    /\ last.op = "delete_account"
    /\ HasAccount(last.pre, last.arg)
    /\ last.pre.active_account = last.arg
    /\ tokens_file.kind = "data"
    /\ tokens_file.data.accounts # <<>>
    /\ tokens_file.data.active_account \in AccountIdsOf(tokens_file.data)

\* deleting the last account clears active_account
C6_WitnessLast ==
    /\ last.op = "delete_account"
    /\ HasAccount(last.pre, last.arg)
    /\ tokens_file = DataFile(EmptyDb)

\* deleting an account that is not active
C6_WitnessInactive ==
    /\ last.op = "delete_account"
    /\ HasAccount(last.pre, last.arg)
    /\ last.pre.active_account # last.arg
    /\ tokens_file.data.active_account = last.pre.active_account

----------------------------------------------------------------------------
(* Properties of the account endpoints *)

\* C7: DELETE on the account the handler finds active answers 409 and leaves
\* the credential file as it was; DELETE on a stored account that is not
\* active (such as A after B was activated) removes it and leaves the active
\* account (B) active.
C7_DeleteActiveIs409 ==
    last.op = "http_delete_account" =>
        LET stored == HasAccount(last.pre, last.arg)
            active == last.pre.active_account = last.arg
        IN
        /\ (stored /\ active) =>
              /\ last.ret = Http(409, "Cannot delete active account")
              /\ tokens_file = last.file
        /\ (stored /\ ~active /\ last.file.kind = "data") =>
              /\ last.ret = Awaiting
              /\ tokens_file.kind = "data"
              /\ ~HasAccount(tokens_file.data, last.arg)
              /\ tokens_file.data.active_account = last.pre.active_account

C7_Witness ==
    /\ last.op = "http_delete_account"
    /\ HasAccount(last.pre, last.arg)
    /\ last.pre.active_account = last.arg
    /\ last.ret = Http(409, "Cannot delete active account")
    /\ tokens_file = last.file
    /\ Len(tokens_file.data.accounts) = 2

\* after B was activated, A is deleted and B is still active
C7_WitnessAfterActivate ==
    /\ last.op = "http_delete_account"
    /\ last.ret = Awaiting
    /\ last.pre.active_account # last.arg
    /\ last.pre.accounts[1].id = last.arg
    /\ tokens_file.data.active_account = last.pre.accounts[2].id
    /\ HasAccount(tokens_file.data, tokens_file.data.active_account)

----------------------------------------------------------------------------
(* Properties of the rate limiters *)

\* how many of the accepted calls in times fall inside the window ending at t
AcceptedInWindow(times, t, window) == Len(StillInWindow(times, t, window))

\* C8: for each limiter and each client, a call is accepted exactly when
\* fewer than `limit` of the client's accepted calls lie inside the window
\* that ends at the call: the first `limit` calls of a window return True,
\* the (limit+1)-th returns False, and once the window has elapsed since the
\* accepted calls a call returns True again.
C8_LimitPerWindow ==
    /\ last.op = "check_rate_limit" =>
         last.ret = Bool(AcceptedInWindow(last.pre, now, RATE_LIMIT_WINDOW)
                            < RATE_LIMIT_REQUESTS)
    /\ last.op = "check_auth_rate_limit" =>
         last.ret = Bool(AcceptedInWindow(last.pre, now, AUTH_RATE_LIMIT_WINDOW)
                            < AUTH_RATE_LIMIT_REQUESTS)

\* the (limit+1)-th call of a window is rejected, the limit calls before it
\* having been accepted at an earlier and at the present moment
C8_Witness ==
    /\ last.op = "check_rate_limit"
    /\ last.ret = Bool(FALSE)
    /\ Len(last.pre) = RATE_LIMIT_REQUESTS
    /\ last.pre[1] < now
    /\ now - last.pre[1] = RATE_LIMIT_WINDOW - 1

\* a call is accepted again once the window of a full list has elapsed
C8_WitnessAgain ==
    /\ last.op = "check_auth_rate_limit"
    /\ last.ret = Bool(TRUE)
    /\ Len(last.stored) = AUTH_RATE_LIMIT_REQUESTS
    /\ last.pre = <<>>
    /\ now - last.stored[Len(last.stored)] = AUTH_RATE_LIMIT_WINDOW

\* the client has used up its limit in the window that ends now
Exhausted(history, client_ip, window, limit) ==
    AcceptedInWindow(history[client_ip], now, window) >= limit

\* C9: rate-limit state is per client: a check for client k1, accepted or
\* rejected, changes neither what is stored for another client k2 nor the
\* answer k2 would get, and while k1 has used up its limit a client k2 that
\* has not is still accepted.
C9_PerClientIsolation ==
    /\ [][\A k1 \in ClientIps, k2 \in ClientIps :
            (/\ k1 # k2
             /\ last' # last
             /\ last'.op = "check_rate_limit"
             /\ last'.arg = k1) =>
                /\ GetList(rate_limit_storage', k2)
                      = GetList(rate_limit_storage, k2)
                /\ CheckLimitResult(rate_limit_storage', k2, now',
                                    RATE_LIMIT_WINDOW, RATE_LIMIT_REQUESTS)
                      = CheckLimitResult(rate_limit_storage, k2, now,
                                    RATE_LIMIT_WINDOW, RATE_LIMIT_REQUESTS)]_vars
    /\ [](\A k1 \in ClientIps, k2 \in ClientIps :
            (/\ Exhausted(admitted.general, k1, RATE_LIMIT_WINDOW,
                          RATE_LIMIT_REQUESTS)
             /\ ~Exhausted(admitted.general, k2, RATE_LIMIT_WINDOW,
                           RATE_LIMIT_REQUESTS)) =>
                CheckLimitResult(rate_limit_storage, k2, now,
                                 RATE_LIMIT_WINDOW, RATE_LIMIT_REQUESTS))

\* k2 is accepted in a window in which k1 has been rejected
C9_Witness ==
    /\ last.op = "check_rate_limit"
    /\ last.ret = Bool(TRUE)
    /\ \E k1 \in ClientIps \ {last.arg} :
         /\ Exhausted(admitted.general, k1, RATE_LIMIT_WINDOW,
                      RATE_LIMIT_REQUESTS)
         /\ k1 \in DOMAIN rate_limit_last_seen
         /\ rate_limit_last_seen[k1] = now
         /\ GetList(rate_limit_storage, k1)[RATE_LIMIT_REQUESTS] < now

----------------------------------------------------------------------------
(* Properties of the OAuth callback *)

\* C2: for any one state token, at most one /auth/callback request carrying
\* it gets past state validation to issue the token-endpoint POST (and so to
\* write credentials), whatever the interleaving of the requests.
C2_OneExchangePerState ==
    \A r1 \in CallbackIds, r2 \in CallbackIds :
        (r1 # r2 /\ callbacks[r1].posted /\ callbacks[r2].posted) =>
            callbacks[r1].state # callbacks[r2].state

\* what C2 excludes and the code allows to go on to the end: two requests
\* with the same state both wrote credentials
C2_TwoWrites ==
    \E r1 \in CallbackIds, r2 \in CallbackIds :
        /\ r1 # r2
        /\ callbacks[r1].wrote /\ callbacks[r2].wrote
        /\ callbacks[r1].state = callbacks[r2].state

----------------------------------------------------------------------------
(* Properties of the limits refresh *)

\* C11: the snapshots a refresh round collected reach cached_limits in one
\* step: while the round is running none of its snapshots is in the cache,
\* and the step that finishes it applies every snapshot collected so far
\* together with that of the provider whose fetch just returned, so no
\* reader finds only a part of the round applied.
C11_AtomicMerge ==
    /\ [](\A t \in TaskIds : tasks[t].pc # "done" =>
             \A p \in ProviderSet : cached_limits[p] # UsageLimits(p, t))
    /\ [][\A t \in TaskIds :
            (InFlight(t) /\ tasks'[t].pc = "done") =>
                \A p \in ProviderSet :
                    /\ p \in Collected(tasks[t].new_limits) =>
                          cached_limits'[p] = tasks[t].new_limits[p]
                    /\ cached_limits'[p] # cached_limits[p] =>
                          /\ cached_limits'[p] = UsageLimits(p, t)
                          /\ \/ p \in Collected(tasks[t].new_limits)
                             \/ (tasks[t].pc = "fetch"
                                    /\ p = Providers[tasks[t].at])]_vars

\* a second round has replaced the snapshots of both providers at once
C11_Witness ==
    \E t \in TaskIds :
        /\ t > 1
        /\ tasks[t].pc = "done"
        /\ \A p \in ProviderSet : cached_limits[p] = UsageLimits(p, t)

\* C10: at most one refresh round is in flight at any time; a call to
\* update_all_limits that arrives while a round is in flight awaits that
\* round and starts no second one, and a call returns only after the round
\* it awaited has finished.
C10_SingleFlight ==
    /\ [](Cardinality(RunningTasks) <= 1)
    /\ [][\A t \in TaskIds :
            /\ (callers'[t] > callers[t] /\ RunningTasks # {}) =>
                  (t \in RunningTasks /\ tasks' = tasks)
            /\ callers'[t] < callers[t] => tasks[t].pc = "done"]_vars

C10_Witness ==
    \E t \in TaskIds :
        /\ InFlight(t)
        /\ tasks[t].pc = "fetch"
        /\ callers[t] = MaxCallers
        /\ Cardinality({u \in TaskIds : tasks[u].pc # "none"}) = MaxRounds

\* C12: store calls of requests in flight together are serialized: at most
\* one call is between its load and its save, and the file always holds the
\* database that the committed calls produce when executed one after the
\* other in commit order, so no committed update is lost
C12_Serialized ==
    /\ Cardinality({w \in Workers : cycles[w].pc = "loaded"}) <= 1
    /\ \A mig \in AccountIds : LoadAllData(tokens_file, mig) = serial

\* two calls that change the same stored account are in flight together,
\* one of them between its load and its save
C12_Witness ==
    \E w \in Workers, v \in Workers :
        /\ w # v
        /\ cycles[w].pc = "loaded" /\ cycles[w].call.op = "delete_account"
        /\ cycles[v].pc = "ready"
        /\ cycles[v].call.op = "update_account_tokens"
        /\ cycles[v].call.account_id = cycles[w].call.account_id
        /\ HasAccount(serial, cycles[w].call.account_id)
        /\ Len(serial.accounts) = 2

\* C13: when get_limits of a provider raises in a refresh round, the round
\* goes on without a snapshot for it: what the round has collected from the
\* other providers stays collected and is merged when the round finishes,
\* and the finishing step leaves the cache entry of every provider the round
\* has no snapshot for as it was.
C13_FailedFetchOmitted ==
    [][\A t \in TaskIds :
        (tasks[t].pc = "fetch" /\ tasks'[t] # tasks[t]) =>
            LET p == Providers[tasks[t].at]
                raised == last'.op = "get_limits" /\ last'.ret = GetLimitsError
                collected == tasks[t].new_limits
            IN  /\ (raised /\ tasks'[t].pc = "fetch") =>
                      tasks'[t].new_limits = collected
                /\ (raised /\ tasks'[t].pc = "done") =>
                      /\ cached_limits'[p] = cached_limits[p]
                      /\ \A q \in Collected(collected) :
                            cached_limits'[q] = collected[q]
                /\ tasks'[t].pc = "done" =>
                      \A q \in ProviderSet \ (Collected(collected) \cup {p}) :
                          cached_limits'[q] = cached_limits[q]]_vars

\* the second round has just finished with a get_limits that raised: the
\* failed provider still shows the snapshot of the first round, the other
\* provider the one of the second
C13_Witness ==
    \E p \in ProviderSet, q \in ProviderSet :
        /\ p # q
        /\ last.op = "get_limits" /\ last.ret = GetLimitsError /\ last.arg = p
        /\ tasks[2].pc = "done"
        /\ cached_limits[p] = UsageLimits(p, 1)
        /\ cached_limits[q] = UsageLimits(q, 2)

\* C14: update_all_limits never propagates an exception to its caller: every
\* call returns normally, whatever is_authenticated and get_limits do.
C14_NeverRaises == last.op = "update_all_limits" => last.ret = None

\* a round that ended with an exception leaves the cache as it found it
C14_CacheKept ==
    [][\A t \in TaskIds :
        (InFlight(t) /\ tasks'[t].pc = "done"
            /\ tasks'[t].exception # None) =>
                cached_limits' = cached_limits]_vars

\* C15: while the credential file cannot be decrypted or parsed, every
\* CredentialManager operation finds the empty database, returns a normal
\* value (a bool or an account id) and leaves behind either the file as it
\* was or the database the operation makes of the empty one.
C15_CorruptFileIsEmpty ==
    [][tokens_file.kind = "corrupt" =>
        /\ last'.pre = EmptyDb
        /\ last'.ret.tag \in {"bool", "str"}
        /\ \/ tokens_file' = tokens_file
           \/ /\ tokens_file'.kind = "data"
              /\ Len(tokens_file'.data.accounts) = 1
              /\ tokens_file'.data.active_account =
                    tokens_file'.data.accounts[1].id]_vars

\* delete_tokens has run on the corrupt file and returned True
C15_Witness ==
    /\ tokens_file.kind = "corrupt"
    /\ last.op = "delete_tokens"
    /\ last.ret = Bool(TRUE)

\* C16: when save_tokens(p, t) has returned True, get_tokens(p) returns t and
\* has_tokens(p) is True.
C16_SaveThenGet ==
    (last.op = "save_tokens" /\ last.ret = Bool(TRUE)) =>
        \A mig \in AccountIds :
            /\ GetTokens(tokens_file, mig, last.arg) = last.tokens
            /\ HasTokens(tokens_file, mig, last.arg)

\* C17: save_tokens(p1, t) and delete_tokens(p1) leave what get_tokens(p2)
\* and has_tokens(p2) return unchanged for every other provider p2.
C17_OtherProvidersKept ==
    last.op \in {"save_tokens", "delete_tokens"} =>
        \A p2 \in ProviderSet \ {last.arg}, mig \in AccountIds :
            GetTokens(tokens_file, mig, p2) = TokensOf(last.pre, p2)

\* C18: after delete_tokens(p) has returned True, has_tokens(p) is False.
C18_DeleteThenNoTokens ==
    (last.op = "delete_tokens" /\ last.ret = Bool(TRUE)) =>
        \A mig \in AccountIds : ~HasTokens(tokens_file, mig, last.arg)

\* C19: every flow that is pending and not expired can be exchanged, whatever
\* flows were created before or after it: a callback that presents the state
\* of a flow no other callback has presented, and that is let through by the
\* rate limit and the state check, posts that flow's own PKCE verifier to
\* the token endpoint.
C19_EachFlowExchangeable ==
    \A r \in CallbackIds :
        LET cb == callbacks[r] IN
        (/\ cb.pc # "idle"
         /\ cb.state \in minted
         /\ cb.page \notin {"Too Many Requests", "Invalid State"}
         /\ \A q \in CallbackIds \ {r} : callbacks[q].state # cb.state) =>
            /\ cb.posted
            /\ cb.verifier = PkceVerifier(cb.state.nonce)

\* a callback that did reach the token endpoint sent the verifier of the flow
\* of its state
C19_PostedOwnVerifier ==
    \A r \in CallbackIds :
        callbacks[r].posted =>
            callbacks[r].verifier = PkceVerifier(callbacks[r].state.nonce)

\* an OpenAI flow whose state is still valid was refused without any POST,
\* and no other callback has arrived: a later login has replaced it in
\* _pending_flow
C19_OpenAiSuperseded ==
    \E r \in CallbackIds :
        /\ callbacks[r].page = "Internal Server Error"
        /\ ~callbacks[r].posted
        /\ HasState(pending_states, callbacks[r].state)
        /\ GetState(pending_states, callbacks[r].state).provider = "openai"
        /\ \A q \in CallbackIds \ {r} : callbacks[q].pc = "idle"
        /\ pending_flow # None

\* C20: when the 200 answer to a refresh has no refresh_token, refresh_tokens
\* succeeds, and the token set it returns and the one it has persisted keep
\* the refresh token that was stored before.
C20_KeepsStoredRefreshToken ==
    (/\ last.op = "refresh_tokens"
     /\ last.reply # None
     /\ last.reply.status = "200"
     /\ last.reply.body.keys = AllKeys \ {"refresh_token"}) =>
        /\ last.ret.tag = "TokenData"
        /\ last.ret.refresh_token = last.stored_refresh
        /\ \A mig \in AccountIds :
              /\ HasTokens(tokens_file, mig, last.arg)
              /\ GetTokens(tokens_file, mig, last.arg).refresh_token =
                    last.stored_refresh

\* GoogleOAuth.refresh_tokens does keep the stored refresh token
C20_GoogleKeepsStored ==
    (last.op = "refresh_tokens" /\ last.arg = "antigravity") =>
        C20_KeepsStoredRefreshToken

\* C21: create_account adds the new account under an id that was not in use:
\* the database has one account more than before and every account that was
\* there is still there, with the provider, name and tokens it had.
C21_CreateAddsOne ==
    last.op = "create_account" =>
        /\ tokens_file.kind = "data"
        /\ Len(tokens_file.data.accounts) = Len(last.pre.accounts) + 1
        /\ \A i \in 1..Len(last.pre.accounts) :
              tokens_file.data.accounts[i] = last.pre.accounts[i]

\* an account changes its provider: the id is the one of an account of the
\* other provider that create_account has just replaced
C21_ProviderChanged ==
    /\ last.op = "create_account"
    /\ HasAccount(last.pre, last.arg)
    /\ tokens_file.kind = "data"
    /\ GetAccountOf(tokens_file.data, last.arg).provider
          # GetAccountOf(last.pre, last.arg).provider

\* C22: create_account makes the account it creates active exactly when no
\* account was active before the call; when one was, active_account keeps
\* its value.
C22_ActiveOnlyIfNone ==
    (last.op = "create_account" /\ tokens_file.kind = "data") =>
        tokens_file.data.active_account =
            IF last.pre.active_account = NoneId THEN last.arg
            ELSE last.pre.active_account

\* a second account was created under a new id while another was active
C22_Witness ==
    /\ last.op = "create_account"
    /\ last.pre.active_account # NoneId
    /\ ~HasAccount(last.pre, last.arg)
    /\ tokens_file.kind = "data"
    /\ HasAccount(tokens_file.data, last.arg)
    /\ tokens_file.data.active_account = last.pre.active_account

\* the first account of an empty database became active
C22_WitnessFirst ==
    /\ last.op = "create_account"
    /\ last.pre = EmptyDb
    /\ tokens_file.kind = "data"
    /\ tokens_file.data.active_account = last.arg

\* the CredentialManager methods that take the id of an existing account
ByIdOps ==
    {"set_active_account", "update_account_name", "update_account_tokens",
     "delete_account"}

\* C23: set_active_account, update_account_name, update_account_tokens and
\* delete_account called with an id that is not in the database return False
\* and leave the credential file as it was.
C23_UnknownIdIsNoOp ==
    [][(last'.op \in ByIdOps /\ ~HasAccount(last'.pre, last'.arg)) =>
          /\ last'.ret = Bool(FALSE)
          /\ tokens_file' = tokens_file]_vars

\* delete_account has been called with the id of no account of a database
\* that holds another one
C23_Witness ==
    /\ last.op = "delete_account"
    /\ ~HasAccount(last.pre, last.arg)
    /\ last.pre.accounts # <<>>
    /\ last.ret = Bool(FALSE)
    /\ tokens_file = DataFile(last.pre)

\* the endpoints that take an account id from the path
AccountEndpoints ==
    {"http_activate_account", "http_update_account_name", "http_delete_account"}

\* C24: a request to the activate, rename or delete endpoint whose account_id
\* is not exactly 8 lowercase hex characters is answered 400, and the account
\* database and the limits cache are as they were before the request.
C24_InvalidIdRejected ==
    [][(last'.op \in AccountEndpoints /\ ~IsHexId(IdChars(last'.arg))) =>
          /\ last'.ret = Http(400, "Invalid account_id format")
          /\ tokens_file' = tokens_file
          /\ cached_limits' = cached_limits]_vars

\* an id that ends in a line feed got past the format check and reached
\* CredentialManager.set_active_account, which did not find it
C24_LineFeedAccepted ==
    /\ last.op = "http_activate_account"
    /\ ~IsHexId(IdChars(last.arg))
    /\ last.ret = Http(200, "error")

\* the position of a provider in the providers dict
ProviderIndex(p) == CHOOSE i \in 1..Len(Providers) : Providers[i] = p

\* the step is a successful activation or deletion: the cache was cleared
\* and the endpoint went on to await update_all_limits
Invalidates ==
    /\ last'.op \in {"http_activate_account", "http_delete_account"}
    /\ last'.ret = Awaiting
    /\ callers' # callers

\* a snapshot of task t enters the cache
Repopulates(t, p) ==
    /\ cached_limits'[p] = UsageLimits(p, t)
    /\ cached_limits[p] # UsageLimits(p, t)

\* C25: a snapshot that a refresh requested before an account activation or
\* deletion cleared the cache never enters the cache afterwards, and the
\* refresh that the activation or deletion awaits has made no request yet
\* when the cache is cleared.
C25_NoStaleSnapshot ==
    [][/\ \A t \in TaskIds, p \in ProviderSet :
             Repopulates(t, p) => ProviderIndex(p) > tasks[t].cleared
       /\ Invalidates => tasks'[update_limits_task'].pc = "created"]_vars

\* the step in which refresh_tokens saves the token set it returns
RefreshSaves ==
    /\ refresh.pc = "post"
    /\ refresh'.pc = "done"
    /\ last'.ret.tag = "TokenData"

\* C26: when refresh_tokens saves a refreshed token set, the account whose
\* refresh token was sent holds it afterwards (if that account still exists),
\* and every other account is as it was before the save, whatever was
\* activated, added or deleted while the POST was in flight.
C26_RefreshSavesIntoSameAccount ==
    [][RefreshSaves =>
          LET pre  == tokens_file.data
              post == tokens_file'.data
              sent == refresh.account
              new  == TokenDict(last'.ret.access_token,
                                last'.ret.refresh_token, last'.ret.expires_at)
          IN  /\ HasAccount(pre, sent) =>
                    /\ HasAccount(post, sent)
                    /\ GetAccountOf(post, sent).tokens = new
              /\ \A id \in AccountIds \ {sent} :
                    /\ HasAccount(post, id) <=> HasAccount(pre, id)
                    /\ HasAccount(pre, id) =>
                          GetAccountOf(post, id) = GetAccountOf(pre, id)]_vars

\* the refreshed token set of one account was written into another one
C26_WrongAccount ==
    /\ last.op = "refresh_tokens"
    /\ last.ret.tag = "TokenData"
    /\ refresh.pc = "done"
    /\ \E id \in AccountIds \ {refresh.account} :
          /\ HasAccount(tokens_file.data, id)
          /\ GetAccountOf(tokens_file.data, id).tokens.refresh_token =
                last.ret.refresh_token
    /\ HasAccount(tokens_file.data, refresh.account)
    /\ GetAccountOf(tokens_file.data, refresh.account).tokens.refresh_token =
          refresh.stored_refresh

\* request r's exchange_code call finishes in this step
ExchangeFinishes(r) ==
    /\ callbacks[r].pc = "post"
    /\ callbacks'[r].pc # "post"

\* C27: when the exchange for one state finishes, with or without tokens, a
\* pending flow of another state is still pending.
C27_OtherFlowKept ==
    [][\A r \in CallbackIds :
          (/\ ExchangeFinishes(r)
           /\ pending_flow # None
           /\ pending_flow.state # callbacks[r].state)
              => pending_flow' = pending_flow]_vars

\* the flow of a login made during the POST is gone although its state is
\* still pending and nobody presented it
C27_FlowLost ==
    /\ pending_flow = None
    /\ \E r \in CallbackIds, i \in 1..Len(pending_states) :
          /\ callbacks[r].pc \in {"get_limits", "done"}
          /\ callbacks[r].posted
          /\ pending_states[i].state # callbacks[r].state
          /\ pending_states[i].provider = "openai"
          /\ \A q \in CallbackIds : callbacks[q].state # pending_states[i].state

\* request r's exchange_code call returns a token set in this step
ExchangeReturnsTokens(r) ==
    /\ callbacks[r].pc = "post"
    /\ callbacks'[r].pc = "get_limits"

\* an account of the provider holds the token set
Persisted(data, provider, tokens) ==
    \E i \in 1..Len(data.accounts) :
        /\ data.accounts[i].provider = provider
        /\ data.accounts[i].tokens = tokens

\* C28: when exchange_code or refresh_tokens returns a token set, the write
\* of that call succeeded (_save_all_data returned True) and the store holds
\* the token set.
C28_ReturnedIsPersisted ==
    [][/\ (\E r \in CallbackIds : ExchangeReturnsTokens(r)) =>
             /\ SaveResult
             /\ Persisted(tokens_file'.data, "openai", LoginTokens)
       /\ RefreshSaves =>
             /\ SaveResult
             /\ Persisted(tokens_file'.data, refresh.provider,
                    TokenDict(last'.ret.access_token, last'.ret.refresh_token,
                              last'.ret.expires_at))]_vars

\* a login ended with its tokens returned while the store is still empty
C28_ReturnedUnsaved ==
    /\ \E r \in CallbackIds : callbacks[r].pc = "get_limits"
    /\ tokens_file.kind = "absent"

\* request r's exchange_code calls end in this step without a token set
ExchangeFails(r) ==
    /\ callbacks[r].pc \in {"idle", "post"}
    /\ callbacks'[r].pc = "done"

\* C29: when a code exchange fails (the state does not validate, no pending
\* flow matches it, the token request fails, is refused or lacks a field),
\* every exchange_code call that was made returned None, none raised, and the
\* credential file is as it was.
C29_FailedExchangeReturnsNone ==
    [][(\E r \in CallbackIds : ExchangeFails(r)) =>
          /\ \A p \in ProviderSet : last'.exchange[p] \in {NotCalled, None}
          /\ tokens_file' = tokens_file]_vars

\* the same for OpenAIOAuth.exchange_code alone
C29_OpenAiReturnsNone ==
    [][(\E r \in CallbackIds : ExchangeFails(r)) =>
          /\ last'.exchange["openai"] \in {NotCalled, None}
          /\ tokens_file' = tokens_file]_vars

\* every account of pre is in post, in its place and as it was, except the
\* account `but`
OthersKept(pre, post, but) ==
    /\ Len(post.accounts) >= Len(pre.accounts)
    /\ \A i \in 1..Len(pre.accounts) :
          pre.accounts[i].id # but => post.accounts[i] = pre.accounts[i]

\* post is pre with one more account, of OpenAI and holding the token set
OneAccountAdded(pre, post) ==
    /\ Len(post.accounts) = Len(pre.accounts) + 1
    /\ OthersKept(pre, post, NoneId)
    /\ post.accounts[Len(post.accounts)].provider = "openai"
    /\ post.accounts[Len(post.accounts)].tokens = "tokens1"

\* post is pre with the token set of account `active` replaced
TokensReplaced(pre, post, active) ==
    /\ Len(post.accounts) = Len(pre.accounts)
    /\ OthersKept(pre, post, active)
    /\ GetAccountOf(post, active) =
          [GetAccountOf(pre, active) EXCEPT !.tokens = "tokens1"]

\* C30: a successful code exchange of a flow with add_new_account creates
\* exactly one new account of the provider and leaves every existing account
\* as it was; without add_new_account it replaces the token set of the
\* provider's active account and the number of accounts stays the same, or,
\* when the provider has no account, creates one.
C30_ExchangeStoresTokens ==
    [][\A r \in CallbackIds :
          ExchangeReturnsTokens(r) =>
              LET pre    == tokens_file.data
                  post   == tokens_file'.data
                  active == ActiveAccountId(pre, "openai")
              IN  IF callbacks[r].add_new_account \/ active = NoneId
                  THEN OneAccountAdded(pre, post)
                  ELSE TokensReplaced(pre, post, active)]_vars

\* the same, for the exchanges in which create_account drew an id that no
\* account has
C30_WithFreshId ==
    [][\A r \in CallbackIds :
          ExchangeReturnsTokens(r) =>
              LET pre    == tokens_file.data
                  post   == tokens_file'.data
                  active == ActiveAccountId(pre, "openai")
              IN  IF callbacks[r].add_new_account \/ active = NoneId
                  THEN Len(post.accounts) # Len(pre.accounts) =>
                           OneAccountAdded(pre, post)
                  ELSE TokensReplaced(pre, post, active)]_vars

\* an exchange with add_new_account replaced the tokens of an account that
\* existed, and no account was added
C30_AddOverwrote ==
    /\ last.op = "auth_callback"
    /\ last.exchange = ExchangeReturned
    /\ \E r \in CallbackIds :
          /\ callbacks[r].pc = "get_limits"
          /\ callbacks[r].add_new_account
          /\ callbacks[r].state = last.arg
    /\ Len(tokens_file.data.accounts) = 1
    /\ tokens_file.data.accounts[1].name.num = 2
    /\ tokens_file.data.accounts[1].tokens = "tokens1"

\* C31: when the callback hands a state that was minted for one provider to
\* the exchange_code of another provider, that call returns None, the state
\* stays pending and the credential file is as it was.
C31_ForeignStateRefused ==
    [][\A r \in CallbackIds : ExchangeFails(r) =>
          \A p \in ProviderSet :
              LET state_data == GetState(pending_states, last'.arg) IN
              (/\ last'.exchange[p] # NotCalled
               /\ state_data # None
               /\ state_data.provider # p)
                 => /\ last'.exchange[p] = None
                    /\ HasState(pending_states', last'.arg)
                    /\ tokens_file' = tokens_file]_vars

\* the same for OpenAIOAuth.exchange_code given a state of an Antigravity
\* login
C31_OpenAiRefuses ==
    [][\A r \in CallbackIds : ExchangeFails(r) =>
          LET state_data == GetState(pending_states, last'.arg) IN
          (/\ last'.exchange["openai"] # NotCalled
           /\ state_data # None
           /\ state_data.provider # "openai")
             => /\ last'.exchange["openai"] = None
                /\ HasState(pending_states', last'.arg)
                /\ tokens_file' = tokens_file]_vars

\* GoogleOAuth.exchange_code was handed the state of an OpenAI login and
\* raised
C31_GoogleRaised ==
    /\ last.op = "auth_callback"
    /\ last.exchange = ExchangeFailed
    /\ GetState(pending_states, last.arg) # None
    /\ GetState(pending_states, last.arg).provider = "openai"

\* the presented token is malformed, unknown, expired, wrongly signed or, in
\* a validation that names a provider, minted for another provider
FailsValidation(states, state, t, expected_provider) ==
    \/ state.fmt # "nonce:sig"
    \/ ~HasState(states, state)
    \/ IsExpired(GetState(states, state), t)
    \/ state.sig # Hmac(state.nonce, GetState(states, state).created_at)
    \/ /\ expected_provider # NoneId
       /\ GetState(states, state).provider # expected_provider

\* the registry after a failed validation of the token: without the token
\* if it was stored and has expired, else as before
AfterFailedValidation(states, state, t) ==
    IF HasState(states, state) /\ IsExpired(GetState(states, state), t)
    THEN DelState(states, state)
    ELSE states

\* (a validate_and_consume step is the same for every expected_provider, so
\* it is a step of the call that names a provider the token was not minted
\* for)
\* C32: a validation of a token that is malformed, unknown, expired, wrongly
\* signed or minted for another provider returns None, and it leaves the
\* registry as it was except that it may remove the presented token when
\* that token has expired.
C32_FailedValidationKeepsRegistry ==
    [][/\ (/\ last'.op = "validate_state"
           /\ FailsValidation(pending_states, last'.arg, now, NoneId))
          => /\ last'.ret = None
             /\ pending_states' =
                   AfterFailedValidation(pending_states, last'.arg, now)
       /\ (/\ last'.op = "validate_and_consume"
           /\ \E expected_provider \in ProviderSet :
                 FailsValidation(pending_states, last'.arg, now,
                                 expected_provider))
          => /\ last'.ret = None
             /\ pending_states' =
                   AfterFailedValidation(pending_states, last'.arg, now)]_vars

\* the same for validate_state alone
C32_ValidateStateKeepsRegistry ==
    [][(/\ last'.op = "validate_state"
        /\ FailsValidation(pending_states, last'.arg, now, NoneId))
          => /\ last'.ret = None
             /\ pending_states' =
                   AfterFailedValidation(pending_states, last'.arg, now)]_vars

\* a validation for Antigravity of a pending OpenAI state raised
C32_MismatchRaised ==
    /\ last.op = "validate_and_consume"
    /\ last.pre # None
    /\ last.pre.provider = "openai"
    /\ ~IsExpired(last.pre, now)
    /\ last.ret = AttributeError

\* C33: validate_state returns the record of every state that is stored and
\* not expired and leaves the registry as it is, so that it can be repeated;
\* after consume_state returned True the state is not stored; a state that
\* is stored in a step was stored before or has just been minted, so a
\* consumed state is never stored again; and for a state that is not stored
\* validate_state returns None and consume_state returns False.
C33_ValidateDoesNotConsume ==
    [][/\ (/\ last'.op = "validate_state"
           /\ HasState(pending_states, last'.arg)
           /\ ~IsExpired(GetState(pending_states, last'.arg), now))
          => /\ last'.ret = GetState(pending_states, last'.arg)
             /\ pending_states' = pending_states
       /\ (last'.op = "consume_state" /\ last'.ret = Bool(TRUE))
          => ~HasState(pending_states', last'.arg)
       /\ \A i \in 1..Len(pending_states') :
             \/ HasState(pending_states, pending_states'[i].state)
             \/ pending_states'[i].state \notin minted
       /\ (last'.op = "validate_state" /\ ~HasState(pending_states, last'.arg))
          => last'.ret = None
       /\ (last'.op = "consume_state" /\ ~HasState(pending_states, last'.arg))
          => last'.ret = Bool(FALSE)]_vars

\* a state stored at an earlier second was validated and is still stored
C33_Witness ==
    /\ last.op = "validate_state"
    /\ last.ret # None
    /\ last.ret = GetState(pending_states, last.arg)
    /\ now > last.ret.created_at

\* a consumed state that has not expired was validated and refused
C33_WitnessConsumed ==
    /\ last.op = "validate_state"
    /\ last.arg \in minted
    /\ ~HasState(pending_states, last.arg)
    /\ now - last.arg.sig.t <= OAUTH_STATE_EXPIRATION
    /\ last.pre = None
    /\ last.ret = None

\* time.time() - flow.created_at > FLOW_EXPIRATION_SECONDS
FlowExpired(flow, t) == t - flow.created_at > FLOW_EXPIRATION_SECONDS

\* request r arrives in this step
CallbackArrives(r) ==
    /\ callbacks[r].pc = "idle"
    /\ callbacks'[r].pc # "idle"

\* C34: an exchange for the state of a pending flow that is older than
\* 600 seconds sends no token request and returns None, in OpenAIOAuth (as
\* the callback reaches it) and in GoogleOAuth.
C34_ExpiredFlowNotExchanged ==
    [][/\ \A r \in CallbackIds :
             (/\ CallbackArrives(r)
              /\ pending_flow # None
              /\ pending_flow.state = last'.arg
              /\ FlowExpired(pending_flow, now))
                => /\ callbacks'[r].pc = "done"
                   /\ ~callbacks'[r].posted
                   /\ last'.exchange["openai"] \in {NotCalled, None}
       /\ (/\ last'.op = "GoogleOAuth.exchange_code"
           /\ last'.arg \in DOMAIN pending_flows
           /\ FlowExpired(pending_flows[last'.arg], now))
             => last'.ret = None]_vars

\* the same for the flow of OpenAIOAuth
C34_OpenAiExpiredFlowNotExchanged ==
    [][\A r \in CallbackIds :
          (/\ CallbackArrives(r)
           /\ pending_flow # None
           /\ pending_flow.state = last'.arg
           /\ FlowExpired(pending_flow, now))
             => /\ callbacks'[r].pc = "done"
                /\ ~callbacks'[r].posted
                /\ last'.exchange["openai"] \in {NotCalled, None}]_vars

\* a callback for the expired flow of OpenAIOAuth was turned away
C34_OpenAiTurnedAway ==
    /\ last.op = "auth_callback"
    /\ pending_flow # None
    /\ pending_flow.state = last.arg
    /\ FlowExpired(pending_flow, now)
    /\ \E r \in CallbackIds :
          callbacks[r].pc = "done" /\ callbacks[r].state = last.arg

\* the call goes on to another POST in this step
RefreshRetries ==
    /\ refresh.pc = "post"
    /\ refresh'.pc = "post"
    /\ refresh'.posts = refresh.posts + 1

\* the call ends in this step
RefreshEnds ==
    /\ refresh.pc = "post"
    /\ refresh'.pc = "done"

\* C35: a refresh_tokens call sends at most 3 POSTs and ends; it sends
\* another POST only after a network error or a 5xx answer; a 4xx answer
\* ends it with None at once; and a network error or 5xx answer to the third
\* POST ends it with None.
C35_AtMostThreePosts ==
    /\ [](refresh.posts <= MaxRetries)
    /\ [][/\ RefreshRetries =>
                /\ refresh'.outcome \in {"RequestError", "5xx"}
                /\ refresh.posts < MaxRetries
          /\ (RefreshEnds /\ refresh'.outcome = "4xx") =>
                /\ last'.ret = None
                /\ refresh'.posts = refresh.posts
          /\ (RefreshEnds /\ refresh'.outcome \in {"RequestError", "5xx"}) =>
                /\ last'.ret = None
                /\ refresh.posts = MaxRetries]_vars
    /\ (refresh.pc = "post") ~> (refresh.pc = "done")

\* a call ended with None after three POSTs, the last one answered 5xx
C35_Witness ==
    /\ refresh.pc = "done"
    /\ refresh.posts = MaxRetries
    /\ refresh.outcome = "5xx"
    /\ last.op = "refresh_tokens"
    /\ last.ret = None

\* a call ended with None at the first 4xx answer, after a retry
C35_WitnessRefused ==
    /\ refresh.pc = "done"
    /\ refresh.posts = 2
    /\ refresh.outcome = "4xx"
    /\ last.ret = None

\* C36: for each limiter and each client, at most `limit` of the calls the
\* limiter accepted lie in the window (now - window, now], whatever checks of
\* any client, cleanups and clock steps came before; and a rejected call
\* leaves the client's stored list as the pruned list it found, with no
\* timestamp added.
C36_AcceptedWithinLimit ==
    /\ \A c \in ClientIps :
          /\ AcceptedInWindow(admitted.general[c], now, RATE_LIMIT_WINDOW)
                <= RATE_LIMIT_REQUESTS
          /\ AcceptedInWindow(admitted.auth[c], now, AUTH_RATE_LIMIT_WINDOW)
                <= AUTH_RATE_LIMIT_REQUESTS
    /\ (last.op = "check_rate_limit" /\ last.ret = Bool(FALSE)) =>
          GetList(rate_limit_storage, last.arg) =
              RecentTimestamps(last.stored, now - RATE_LIMIT_WINDOW)
    /\ (last.op = "check_auth_rate_limit" /\ last.ret = Bool(FALSE)) =>
          GetList(auth_rate_limit_storage, last.arg) =
              RecentTimestamps(last.stored, now - AUTH_RATE_LIMIT_WINDOW)

\* a client has `limit` accepted calls in the window, the first made at an
\* earlier moment, and a further call has just been rejected
C36_Witness ==
    /\ last.op = "check_rate_limit"
    /\ last.ret = Bool(FALSE)
    /\ AcceptedInWindow(admitted.general[last.arg], now, RATE_LIMIT_WINDOW)
          = RATE_LIMIT_REQUESTS
    /\ admitted.general[last.arg][1] < now
    /\ Len(GetList(rate_limit_storage, last.arg)) = RATE_LIMIT_REQUESTS

----------------------------------------------------------------------------
(* The cleanup job of the rate limiters *)

\* the moments of a later call: at once, and after each step of the clock
LaterOffsets == {0} \cup RateSteps

\* what a call of one limiter by client_ip at time t would return and leave
\* stored for that client
DecisionAt(storage, client_ip, t, window, limit) ==
    [ret |-> CheckLimitResult(storage, client_ip, t, window, limit),
     stored |-> CheckLimitStorage(storage, client_ip, t, window,
                                  limit)[client_ip]]

\* C37: a run of cleanup_rate_limit_storage changes no admission decision:
\* for every client and every later time, a call of check_rate_limit or
\* check_auth_rate_limit returns, and leaves stored, what it would have
\* without the cleanup; no timestamp still inside the trailing window is
\* removed.
C37_CleanupKeepsDecisions ==
    [][cleanup_rate_limit_storage =>
        \A c \in ClientIps :
            /\ RecentTimestamps(GetList(rate_limit_storage', c),
                                now - RATE_LIMIT_WINDOW)
                  = RecentTimestamps(GetList(rate_limit_storage, c),
                                     now - RATE_LIMIT_WINDOW)
            /\ RecentTimestamps(GetList(auth_rate_limit_storage', c),
                                now - AUTH_RATE_LIMIT_WINDOW)
                  = RecentTimestamps(GetList(auth_rate_limit_storage, c),
                                     now - AUTH_RATE_LIMIT_WINDOW)
            /\ \A d \in LaterOffsets :
                  /\ DecisionAt(rate_limit_storage', c, now + d,
                                RATE_LIMIT_WINDOW, RATE_LIMIT_REQUESTS)
                        = DecisionAt(rate_limit_storage, c, now + d,
                                     RATE_LIMIT_WINDOW, RATE_LIMIT_REQUESTS)
                  /\ DecisionAt(auth_rate_limit_storage', c, now + d,
                                AUTH_RATE_LIMIT_WINDOW,
                                AUTH_RATE_LIMIT_REQUESTS)
                        = DecisionAt(auth_rate_limit_storage, c, now + d,
                                     AUTH_RATE_LIMIT_WINDOW,
                                     AUTH_RATE_LIMIT_REQUESTS)]_vars

\* a cleanup has removed one client's timestamps while another client, whose
\* quota is used up, was kept and would still be refused
C37_Witness ==
    /\ last.op = "cleanup_rate_limit_storage"
    /\ \E c \in DOMAIN last.pre.general : last.pre.general[c] # <<>>
    /\ \E c \in ClientIps :
          /\ c \notin DOMAIN last.pre.general
          /\ ~CheckLimitResult(rate_limit_storage, c, now, RATE_LIMIT_WINDOW,
                               RATE_LIMIT_REQUESTS)

\* the clients a cleanup at time t must remove from one limiter: last seen
\* more than two windows ago, or stored with an empty list
MustGo(storage, last_seen, t, window) ==
    {c \in ClientIps :
        \/ c \in DOMAIN last_seen /\ t - last_seen[c] > 2 * window
        \/ c \in DOMAIN storage /\ Len(storage[c]) = 0}

\* what one table holds after a cleanup that removes the clients in gone
CleanedTo(table_after, table_before, gone) ==
    /\ DOMAIN table_after = DOMAIN table_before \ gone
    /\ \A c \in DOMAIN table_after : table_after[c] = table_before[c]

\* C38: cleanup_rate_limit_storage removes exactly the clients whose
\* last-seen time is older than 2 * window or whose timestamp list is empty,
\* from both the timestamp table and the last-seen table of each limiter,
\* and leaves every other client's entries unchanged.
C38_CleanupRemovesExactly ==
    [][cleanup_rate_limit_storage =>
        LET general == MustGo(rate_limit_storage, rate_limit_last_seen, now,
                              RATE_LIMIT_WINDOW)
            auth    == MustGo(auth_rate_limit_storage,
                              auth_rate_limit_last_seen, now,
                              AUTH_RATE_LIMIT_WINDOW)
        IN  /\ CleanedTo(rate_limit_storage', rate_limit_storage, general)
            /\ CleanedTo(rate_limit_last_seen', rate_limit_last_seen, general)
            /\ CleanedTo(auth_rate_limit_storage', auth_rate_limit_storage,
                         auth)
            /\ CleanedTo(auth_rate_limit_last_seen',
                         auth_rate_limit_last_seen, auth)]_vars

\* a cleanup has removed a client of each limiter and kept a client that was
\* last seen exactly two windows ago
C38_Witness ==
    /\ last.op = "cleanup_rate_limit_storage"
    /\ DOMAIN last.pre.general # {}
    /\ DOMAIN last.pre.auth # {}
    /\ \E c \in DOMAIN rate_limit_last_seen :
          /\ now - rate_limit_last_seen[c] = 2 * RATE_LIMIT_WINDOW
          /\ c \in DOMAIN rate_limit_storage

----------------------------------------------------------------------------
(* The order of the checks on a request *)

\* the last step was a request that is not a CORS preflight
NonOptionsRequest ==
    last.op = "http_request" /\ last.request.method # "OPTIONS"

\* the client's quota in the window that ends at the request was used up
QuotaUsedUp ==
    AcceptedInWindow(last.pre, now, RATE_LIMIT_WINDOW) >= RATE_LIMIT_REQUESTS

\* the general rate limiter has checked and counted the request: it was
\* refused with 429 when the quota was used up, and added to the client's
\* accepted calls otherwise
CheckedAndCounted ==
    IF QuotaUsedUp
    THEN last.ret = Http(429, "Too many requests")
    ELSE admitted.general[last.arg] = Append(last.pre, now)

\* the middleware named first applied its check before the one named second,
\* if that one applied its check at all
AppliedBefore(first, second) ==
    /\ \E i \in 1..Len(last.checks) : last.checks[i] = first
    /\ \A i, j \in 1..Len(last.checks) :
          (last.checks[i] = first /\ last.checks[j] = second) => i < j

ReachedHandler == last.ret = Str("route handler")

\* the request carries the configured token, or needs none
PassesTokenCheck ==
    (last.api_token # NoToken /\ requires_api_token(last.request.path)) =>
        last.request.provided_token = last.api_token

\* without a configured token, the request is for an exempt path or comes
\* from a loopback client
PassesLoopbackAcl ==
    (last.api_token = NoToken /\ ~is_exempt_path(last.request.path)) =>
        is_loopback_client(last.arg)

\* C39: every inbound non-OPTIONS request is checked and counted by the
\* general rate limiter before any token or loopback ACL check is applied,
\* and only requests that pass both reach a route handler.
C39_RateLimitedFirst ==
    NonOptionsRequest =>
        /\ CheckedAndCounted
        /\ AppliedBefore("rate_limit_middleware", "api_token_middleware")
        /\ AppliedBefore("rate_limit_middleware", "loopback_only_middleware")
        /\ ReachedHandler =>
              ~QuotaUsedUp /\ PassesTokenCheck /\ PassesLoopbackAcl

TurnedAwayByAcl == last.ret = Http(403, "Access denied")

\* C39, amended: every inbound non-OPTIONS request that the loopback ACL
\* does not turn away is checked and counted by the general rate limiter
\* before any token check is applied; a request the loopback ACL turns away
\* is not counted; and only requests that pass the rate limiter, the token
\* check and the loopback ACL reach a route handler.
C39_RateLimitedBeforeToken ==
    NonOptionsRequest =>
        /\ ~TurnedAwayByAcl =>
              /\ CheckedAndCounted
              /\ AppliedBefore("rate_limit_middleware", "api_token_middleware")
        /\ TurnedAwayByAcl =>
              /\ ~PassesLoopbackAcl
              /\ admitted.general[last.arg] = last.pre
              /\ last.checks = <<"loopback_only_middleware">>
        /\ ReachedHandler =>
              ~QuotaUsedUp /\ PassesTokenCheck /\ PassesLoopbackAcl

\* a request with a wrong token has been counted by the rate limiter and then
\* refused by the token check
C39_Witness ==
    /\ NonOptionsRequest
    /\ last.ret = Http(401, "Unauthorized")
    /\ last.request.provided_token = "wrong"
    /\ last.checks = <<"rate_limit_middleware", "api_token_middleware">>
    /\ admitted.general[last.arg] = Append(last.pre, now)

\* a loopback client without a configured token reaches the handler after
\* the ACL and the rate limiter, in that order
C39_WitnessLoopback ==
    /\ NonOptionsRequest
    /\ ReachedHandler
    /\ last.checks = <<"loopback_only_middleware", "rate_limit_middleware">>
    /\ Len(last.pre) = RATE_LIMIT_REQUESTS - 1

----------------------------------------------------------------------------
(* The active account of a database that holds accounts *)

\* the databases _load_all_data can return for the credential file, one for
\* each id the migration of an old-format file may draw
PersistedDatabases == {LoadAllData(tokens_file, id) : id \in AccountIds}

\* C40: whenever the persisted database contains at least one account,
\* active_account is set (not None), after any sequence of CredentialManager
\* operations starting from an empty or migrated database.
C40_ActiveSetWhenAccounts ==
    \A db \in PersistedDatabases :
        db.accounts # <<>> => db.active_account # NoneId

\* the active account was deleted while another account remained, which is
\* active now
C40_Witness ==
    /\ last.op = "delete_account"
    /\ HasAccount(last.pre, last.arg)
    /\ last.pre.active_account = last.arg
    /\ tokens_file.kind = "data"
    /\ tokens_file.data.accounts # <<>>
    /\ tokens_file.data.active_account = tokens_file.data.accounts[1].id

\* an old-format file was migrated by the first create_account: the migrated
\* account stays active beside the new one
C40_WitnessMigrated ==
    /\ last.op = "create_account"
    /\ tokens_file.kind = "data"
    /\ Len(tokens_file.data.accounts) = 2
    /\ tokens_file.data.accounts[1].tokens = LegacyTokens
    /\ tokens_file.data.active_account = tokens_file.data.accounts[1].id
    /\ last.ret # Str(tokens_file.data.active_account)

====
